---------------------------- MODULE Spec2Model ----------------------------
(***************************************************************************)
(* Employee-absence dashboard (app.py + data_utils.py + figures.py +       *)
(* constants.py).  The in-memory table `abwesenheiten`, the CSV file, the  *)
(* add-click handler and the transform functions that feed the summary     *)
(* table and the charts; the download callbacks; the monolithic variant    *)
(* main.py run side by side; add requests handled in concurrent threads.   *)
(*                                                                         *)
(* Data representation                                                     *)
(*   - a text cell is a TLA+ string; a missing value (pandas NaN / Python  *)
(*     None) is one of the two sentinels NaN / PyNone below;               *)
(*   - a timestamp (normalised to midnight) is the number of days since    *)
(*     1970-01-01; the calendar operators turn it into year, month, day    *)
(*     and weekday the way pandas' .dt accessors do;                       *)
(*   - a data frame is the sequence of its rows, each row a record.        *)
(***************************************************************************)
EXTENDS Integers, Sequences, FiniteSets, TLC

VARIABLES
    abwesenheiten,   \* app.py: the global table, a sequence of rows
    csv_datei,       \* the file CSV_DATEI: [exists, rows]
    expanded_df,     \* expanded_initial / expanded_df: the last expansion
    rueckmeldung,    \* Output abwesenheit_rueckmeldung.children
    tabelle_data,    \* Output abwesenheit_tabelle.data
    krank_data,      \* Output ma_uebersicht_krank_tabelle.data
    figuren,         \* Outputs of the four dcc.Graph figures
    letzter_klick,   \* which kind of form input the last add click carried
    pc,              \* position in the module-level code of app.py
    export,          \* Outputs of the download callbacks, with their inputs
    main,            \* main.py: the state of the monolithic variant
    anfragen,        \* add requests in flight, one per server thread
    tabelle_columns, \* the columns property of the DataTable abwesenheit_tabelle
    gen,             \* create_employee_data.py: the variables of the script
    aufrufe          \* what the repeated calls of the transform functions returned

\* the variables the code before the layout and the add callback of app.py
\* leave alone
andere == <<export, main, anfragen, tabelle_columns, gen, aufrufe>>

vars == <<abwesenheiten, csv_datei, expanded_df, rueckmeldung, tabelle_data,
          krank_data, figuren, letzter_klick, pc, export, main, anfragen,
          tabelle_columns, gen, aufrufe>>

----------------------------------------------------------------------------
(* Missing values.                                                          *)

\* float('nan') in an object column (read_csv's value for an NA cell).
NaN == "<nan>"
\* Python None (an empty form field).
PyNone == "<None>"
\* pandas.NaT; every real timestamp of the model is a day number >= 0.
NaT == 0 - 1

isna(x) == x = NaN \/ x = PyNone

\* create_employee_data.py has not been started
KeinLauf ==
    [pc |-> "aus", urlaub_tage_pro_mitarbeiter |-> <<>>,
     urlaub_entries_per_mitarbeiter |-> <<>>, emp |-> 0, j |-> 0,
     tage |-> 0, random_days |-> 0, duration |-> 0, data |-> <<>>,
     remaining_entries |-> 0, additional_absences_per_employee |-> <<>>,
     difference |-> 0, datei |-> <<>>]

----------------------------------------------------------------------------
(* constants.py                                                             *)

WOCHENTAGE == <<"Montag", "Dienstag", "Mittwoch", "Donnerstag", "Freitag",
                "Samstag", "Sonntag">>
MONATE == <<"Januar", "Februar", "März", "April", "Mai", "Juni",
            "Juli", "August", "September", "Oktober", "November", "Dezember">>
ABWESENHEITSGRUENDE == <<"Krank", "Urlaub", "Persönliche Gründe", "Fortbildung">>

\* dict(enumerate(WOCHENTAGE)): keys 0..6
WOCHENTAG_MAP == [k \in 0..6 |-> WOCHENTAGE[k + 1]]
\* dict(enumerate(MONATE, 1)): keys 1..12
MONAT_MAP == [k \in 1..12 |-> MONATE[k]]

\* list.index(x): 0-based position of the first occurrence
ListIndex(list, x) == (CHOOSE i \in 1..Len(list) :
                          /\ list[i] = x
                          /\ \A j \in 1..(i - 1) : list[j] # x) - 1

----------------------------------------------------------------------------
(* Calendar: what Timestamp.year/.month/.day/.weekday compute from the      *)
(* day number (proleptic Gregorian calendar).                               *)

CivilFromDays(z0) ==
    LET z   == z0 + 719468
        era == z \div 146097
        doe == z - era * 146097
        yoe == (doe - (doe \div 1460) + (doe \div 36524) - (doe \div 146096)) \div 365
        doy == doe - (365 * yoe + (yoe \div 4) - (yoe \div 100))
        mp  == (5 * doy + 2) \div 153
        d   == doy - ((153 * mp + 2) \div 5) + 1
        m   == IF mp < 10 THEN mp + 3 ELSE mp - 9
        y   == yoe + era * 400 + (IF m <= 2 THEN 1 ELSE 0)
    IN  <<y, m, d>>

DaysFromCivil(y0, m, d) ==
    LET y   == IF m <= 2 THEN y0 - 1 ELSE y0
        era == y \div 400
        yoe == y - era * 400
        mp  == IF m > 2 THEN m - 3 ELSE m + 9
        doy == ((153 * mp + 2) \div 5) + d - 1
        doe == yoe * 365 + (yoe \div 4) - (yoe \div 100) + doy
    IN  era * 146097 + doe - 719468

\* Series.dt.weekday: Monday = 0 ... Sunday = 6 (1970-01-01 was a Thursday)
dt_weekday(ts) == (ts + 3) % 7
\* Series.dt.month: 1..12
dt_month(ts) == CivilFromDays(ts)[2]

\* a range that leaves the end day out (pd.date_range(..., inclusive="left")):
\* not what line 32 calls; C1 tells the two apart
date_range_left(start, end) == [i \in 1..(IF end > start THEN end - start ELSE 0)
                                  |-> start + i - 1]

\* pd.date_range(start, end): every day from start to end, both inclusive;
\* empty when start > end.
date_range(start, end) == [i \in 1..(IF end >= start THEN end - start + 1 ELSE 0)
                              |-> start + i - 1]

----------------------------------------------------------------------------
(* Python's order of str (code points), on the texts the model uses:        *)
(* sort keys of groupby(sort=True) and sort_values.                         *)

TextOrder == <<"", "Andere", "Anna", "April", "August", "Ben", "Dezember",
               "Dienstag", "Donnerstag", "EMP-1a2b3c4d", "EMP-9f8e7d6c",
               "Februar", "Fortbildung", "Freitag", "Januar", "Juli",
               "Juni", "Krank", "Kur", "Mai", "Mittwoch", "Montag", "März",
               "NA", "November", "Oktober", "Persönliche Gründe", "Samstag",
               "September", "Sonntag", "Urlaub">>

\* the members of the set S of texts, ascending
SortedTexts(S) == SelectSeq(TextOrder, LAMBDA t : t \in S)

StrLess(a, b) == ListIndex(TextOrder, a) < ListIndex(TextOrder, b)

RECURSIVE SumSeq(_)
SumSeq(s) == IF s = <<>> THEN 0 ELSE Head(s) + SumSeq(Tail(s))

RECURSIVE Concat(_)
\* concatenation of a sequence of sequences
Concat(ss) == IF ss = <<>> THEN <<>> ELSE Head(ss) \o Concat(Tail(ss))

Range(s) == {s[i] : i \in 1..Len(s)}

SetMax(S) == CHOOSE x \in S : \A y \in S : y <= x
SetMin(S) == CHOOSE x \in S : \A y \in S : x <= y

\* Series.unique(): the values in order of first appearance
unique(s) == LET first == {i \in 1..Len(s) : \A j \in 1..(i - 1) : s[j] # s[i]}
             IN  [k \in 1..Cardinality(first) |->
                    s[CHOOSE i \in first :
                        Cardinality({j \in first : j < i}) = k - 1]]

----------------------------------------------------------------------------
(* data_utils.py: expand_abwesenheiten                                      *)

\* pd.date_range raises ValueError when start or end is NaT; in the
\* comprehension of lines 24-34 it is evaluated before the isna filter.
expand_raises(d) ==
    \E i \in 1..Len(d) : d[i].Startdatum = NaT \/ d[i].Enddatum = NaT

\* the rows one record contributes: one per day of date_range(start, end),
\* with the Wochentag and Monat columns of lines 37-38
expand_row(row) ==
    LET days == date_range(row.Startdatum, row.Enddatum)
    IN  [i \in 1..Len(days) |->
            [Mitarbeiter_ID |-> row.Mitarbeiter_ID,
             Name           |-> row.Name,
             Datum          |-> days[i],
             Grund          |-> row.Grund,
             Wochentag      |-> WOCHENTAG_MAP[dt_weekday(days[i])],
             Monat          |-> MONAT_MAP[dt_month(days[i])]]]

expand_abwesenheiten(d) ==
    IF d = <<>> THEN <<>>
    ELSE Concat([i \in 1..Len(d) |-> expand_row(d[i])])

----------------------------------------------------------------------------
(* data_utils.py: create_krank_uebersicht                                   *)

\* thresholds read as strict bounds: not what lines 60-62 do; C7 tells the
\* two apart at 10, 20 and 30 days
get_smiley_strict(x) ==
    IF x < 10 THEN "U+1F604"
    ELSE IF x < 20 THEN "U+1F610"
    ELSE IF x < 30 THEN "U+1F615"
    ELSE "U+1F622"

\* The four smileys are written by their Unicode code points:
\* U+1F604 grinning, U+1F610 neutral, U+1F615 confused, U+1F622 crying.
get_smiley(x) ==
    IF x <= 10 THEN "U+1F604"
    ELSE IF x <= 20 THEN "U+1F610"
    ELSE IF x <= 30 THEN "U+1F615"
    ELSE "U+1F622"

\* groupby(["Mitarbeiter-ID", "Name"]) on the rows of k: the key pairs in
\* ascending order; rows with a missing key are dropped (dropna=True)
krank_keys(k) ==
    LET ks    == {<<k[i].Mitarbeiter_ID, k[i].Name>> :
                        i \in {j \in 1..Len(k) : ~isna(k[j].Mitarbeiter_ID)
                                                  /\ ~isna(k[j].Name)}}
        ids   == SortedTexts({p[1] : p \in ks})
        names == SortedTexts({p[2] : p \in ks})
        pairs == Concat([a \in 1..Len(ids) |->
                     [b \in 1..Len(names) |-> <<ids[a], names[b]>>]])
    IN  SelectSeq(pairs, LAMBDA p : p \in ks)

\* data_utils.py line 52 on a table with a "Krank" row and without the
\* column Fehltage (no row has the value): the selection raises KeyError
krank_raises(d) ==
    /\ \E i \in 1..Len(d) : d[i].Grund = "Krank"
    /\ \A i \in 1..Len(d) : "Fehltage" \notin DOMAIN d[i]

\* data_utils.py lines 43-63; sum() skips a missing Fehltage: that of a
\* record with a missing date, and that of a record line 244 has not
\* reached yet
create_krank_uebersicht(d) ==
    LET krank_df == SelectSeq(d, LAMBDA r : r.Grund = "Krank")
        keys     == krank_keys(krank_df)
        summe(p) == SumSeq([i \in 1..Len(krank_df) |->
                        IF <<krank_df[i].Mitarbeiter_ID, krank_df[i].Name>> = p
                           /\ "Fehltage" \in DOMAIN krank_df[i]
                           /\ krank_df[i].Startdatum # NaT
                           /\ krank_df[i].Enddatum # NaT
                        THEN krank_df[i].Fehltage ELSE 0])
    IN  IF d = <<>> \/ krank_df = <<>> THEN <<>>
        ELSE [j \in 1..Len(keys) |->
                [Mitarbeiter_ID       |-> keys[j][1],
                 Name                 |-> keys[j][2],
                 Summe_Krank_Fehltage |-> summe(keys[j]),
                 Smiley               |-> get_smiley(summe(keys[j]))]]

----------------------------------------------------------------------------
(* figures.py                                                               *)

\* px.bar(title="Keine Daten verfügbar")
dummy_figure == [title |-> "Keine Daten verfügbar", data |-> <<>>]

\* the non-missing values of column Grund, ascending (group keys)
grund_keys(e) == SortedTexts({e[i].Grund : i \in {j \in 1..Len(e) : ~isna(e[j].Grund)}})

\* lines 13-15: expanded_df.groupby("Grund")["Datum"].count()
grund_trends(e) ==
    LET gs == grund_keys(e)
    IN  [k \in 1..Len(gs) |->
            [Grund |-> gs[k],
             Tage  |-> Len(SelectSeq(e, LAMBDA r : r.Grund = gs[k]))]]

\* groupby([col, "Grund"])["Datum"].count().reset_index(name="Tage") with
\* col the column "Wochentag" or "Monat"; rows in ascending key order, only
\* the groups that occur
group_by_col_grund(e, col) ==
    LET cs   == SortedTexts({e[i][col] : i \in 1..Len(e)})
        gs   == grund_keys(e)
        all  == Concat([a \in 1..Len(cs) |->
                    [b \in 1..Len(gs) |->
                        [Key   |-> cs[a],
                         Grund |-> gs[b],
                         Tage  |-> Len(SelectSeq(e, LAMBDA r : r[col] = cs[a]
                                                        /\ r.Grund = gs[b]))]]])
    IN  SelectSeq(all, LAMBDA g : g.Tage > 0)

\* sort_values([col, "Grund"]), the alphabetical order of the names: not the
\* order lines 28-29 sort by; C10 tells the two apart
sort_name_less(list, a, b) ==
    \/ StrLess(a.Key, b.Key)
    \/ /\ a.Key = b.Key
       /\ StrLess(a.Grund, b.Grund)

\* lines 28-29 / 43-44: the column sort_index and sort_values(["sort_index", "Grund"])
sort_index_less(list, a, b) ==
    \/ ListIndex(list, a.Key) < ListIndex(list, b.Key)
    \/ /\ ListIndex(list, a.Key) = ListIndex(list, b.Key)
       /\ StrLess(a.Grund, b.Grund)

\* lines 29 / 44: DataFrame.sort_values(["sort_index", "Grund"]) with
\* sort_index the position in list; the sort keys of the rows are pairwise
\* different, so the row at position k is the one with k - 1 rows before it
sort_values(s, list) ==
    [k \in 1..Len(s) |->
        CHOOSE r \in Range(s) :
            Cardinality({q \in Range(s) : sort_index_less(list, q, r)}) = k - 1]

\* lines 25-29
wochentag_trends(e) ==
    LET g == group_by_col_grund(e, "Wochentag")
        s == sort_values(g, WOCHENTAGE)
    IN  [k \in 1..Len(s) |->
            [Wochentag  |-> s[k].Key, Grund |-> s[k].Grund, Tage |-> s[k].Tage,
             sort_index |-> ListIndex(WOCHENTAGE, s[k].Key)]]

\* lines 40-44
monat_trends(e) ==
    LET g == group_by_col_grund(e, "Monat")
        s == sort_values(g, MONATE)
    IN  [k \in 1..Len(s) |->
            [Monat      |-> s[k].Key, Grund |-> s[k].Grund, Tage |-> s[k].Tage,
             sort_index |-> ListIndex(MONATE, s[k].Key)]]

\* lines 51-83: one go.Bar trace per month of MONATE and reason of that month
create_monthly_figure(mt) ==
    LET traces(monat) ==
            LET monat_data == SelectSeq(mt, LAMBDA r : r.Monat = monat)
                gruende    == unique([i \in 1..Len(monat_data) |-> monat_data[i].Grund])
            IN  [j \in 1..Len(gruende) |->
                    [name        |-> <<monat, gruende[j]>>,
                     x           |-> monat,
                     y           |-> SelectSeq(monat_data,
                                        LAMBDA r : r.Grund = gruende[j])[1].Tage,
                     legendgroup |-> monat]]
    IN  [title |-> "Abwesenheitstrends nach Monat und Grund",
         data  |-> Concat([m \in 1..Len(MONATE) |-> traces(MONATE[m])])]

\* only the days that have an expanded row (daily_absences of lines 97-99
\* taken for all_days_df): not what lines 91-101 build; C25 tells the two
\* apart on a table with days without absence
all_days_df_nur_abwesend(e) ==
    LET daten == {e[i].Datum : i \in 1..Len(e)}
        lo    == SetMin(daten)
        hi    == SetMax(daten)
    IN  SelectSeq([i \in 1..(hi - lo + 1) |->
                      [Datum |-> lo + i - 1,
                       Monat |-> MONAT_MAP[dt_month(lo + i - 1)],
                       Anzahl_Abwesenheiten |->
                           Len(SelectSeq(e, LAMBDA r : r.Datum = lo + i - 1))]],
                  LAMBDA row : row.Anzahl_Abwesenheiten > 0)

\* lines 91-101: one row per calendar day from the earliest to the latest
\* Datum, with its month name and the number of expanded rows on that day
\* (0 after fillna for a day without rows)
all_days_df(e) ==
    LET daten == {e[i].Datum : i \in 1..Len(e)}
        lo    == SetMin(daten)
        hi    == SetMax(daten)
    IN  SelectSeq([i \in 1..(hi - lo + 1) |->
                      [Datum |-> lo + i - 1,
                       Monat |-> MONAT_MAP[dt_month(lo + i - 1)],
                       Anzahl_Abwesenheiten |->
                           Len(SelectSeq(e, LAMBDA r : r.Datum = lo + i - 1))]],
                  LAMBDA row : TRUE)

\* lines 103-122: the aggregates of one month's days.  Durchschnitt and Std
\* are floating point numbers; the row carries the exact sums they are
\* computed from (mean = Summe / Tage_gesamt, variance from Quadratsumme),
\* and Abwesenheitsquote is Tage_mit_Abwesenheit / Tage_gesamt.
stats_row(days, monat) ==
    LET rows   == SelectSeq(days, LAMBDA d : d.Monat = monat)
        zahlen == {rows[i].Anzahl_Abwesenheiten : i \in 1..Len(rows)}
    IN  [Monat                |-> monat,
         Summe                |-> SumSeq([i \in 1..Len(rows) |->
                                     rows[i].Anzahl_Abwesenheiten]),
         Quadratsumme         |-> SumSeq([i \in 1..Len(rows) |->
                                     rows[i].Anzahl_Abwesenheiten
                                       * rows[i].Anzahl_Abwesenheiten]),
         Max                  |-> SetMax(zahlen),
         Min                  |-> SetMin(zahlen),
         Tage_mit_Abwesenheit |-> Len(SelectSeq(rows, LAMBDA d : d.Anzahl_Abwesenheiten > 0)),
         Tage_gesamt          |-> Len(rows),
         Monat_Sort           |-> ListIndex(MONATE, monat)]

\* line 123: stats_df.sort_values("Monat_Sort")
sort_by_monat(stats_df) ==
    [k \in 1..Len(stats_df) |->
        CHOOSE r \in Range(stats_df) :
            Cardinality({q \in Range(stats_df) : q.Monat_Sort < r.Monat_Sort}) = k - 1]

\* lines 86-125
create_statistics_figure(e) ==
    LET days     == all_days_df(e)
        keys     == SortedTexts({days[i].Monat : i \in 1..Len(days)})
        stats_df == [k \in 1..Len(keys) |-> stats_row(days, keys[k])]
    IN  IF e = <<>> THEN dummy_figure
        ELSE [title |-> "Statistische Analyse der Abwesenheiten pro Tag und Monat",
              data  |-> sort_by_monat(stats_df)]

\* charts with their real titles and no bars for an empty table, the
\* check of lines 9-11 left out: not what the code does; C22 tells the two
\* apart
generate_figures_ohne_platzhalter(e) ==
    IF e = <<>>
    THEN [grund     |-> [title |-> "Abwesenheitstrends nach Grund (Tage)",
                         data  |-> <<>>],
          wochentag |-> [title |-> "Abwesenheitstrends nach Wochentag und Grund",
                         data  |-> <<>>],
          monat     |-> [title |-> "Abwesenheitstrends nach Monat und Grund",
                         data  |-> <<>>],
          statistik |-> create_statistics_figure(e)]
    ELSE [grund     |-> [title |-> "Abwesenheitstrends nach Grund (Tage)",
                         data  |-> grund_trends(e)],
          wochentag |-> [title |-> "Abwesenheitstrends nach Wochentag und Grund",
                         data  |-> wochentag_trends(e)],
          monat     |-> create_monthly_figure(monat_trends(e)),
          statistik |-> create_statistics_figure(e)]

\* lines 7-48
generate_figures(e) ==
    IF e = <<>>
    THEN [grund |-> dummy_figure, wochentag |-> dummy_figure,
          monat |-> dummy_figure, statistik |-> dummy_figure]
    ELSE [grund     |-> [title |-> "Abwesenheitstrends nach Grund (Tage)",
                         data  |-> grund_trends(e)],
          wochentag |-> [title |-> "Abwesenheitstrends nach Wochentag und Grund",
                         data  |-> wochentag_trends(e)],
          monat     |-> create_monthly_figure(monat_trends(e)),
          statistik |-> create_statistics_figure(e)]

----------------------------------------------------------------------------
(* The CSV file and data_utils.py: load_data.                               *)
(*                                                                          *)
(* A file is [exists, rows]; a row of the file holds the text of its cells: *)
(* a str cell is its characters, a date cell is <<year, month, day>> (the   *)
(* text YYYY-MM-DD) or <<>> (an empty cell), the Fehltage cell is <<n>>     *)
(* (the digits of n) or <<>> when the file has no such column.              *)

\* read_csv's default na_values: the cell texts it reads as NaN
NA_VALUES == {"", "#N/A", "#N/A N/A", "#NA", "-1.#IND", "-1.#QNAN", "-NaN",
              "-nan", "1.#IND", "1.#QNAN", "<NA>", "N/A", "NA", "NULL", "NaN",
              "None", "n/a", "nan", "null"}

\* a str cell as read_csv returns it
read_text(cell) == IF cell \in NA_VALUES THEN NaN ELSE cell

\* a parse_dates cell as read_csv returns it, normalised
read_date(cell) == IF cell = <<>> THEN NaT
                   ELSE DaysFromCivil(cell[1], cell[2], cell[3])

\* the difference of the dates without the + 1: not what lines 13 and 244
\* compute; C2 tells the two apart
fehltage_differenz(start, end) == IF start = NaT \/ end = NaT THEN NaN
                                   ELSE end - start

\* (Enddatum - Startdatum).dt.days + 1; NaN when a date is missing
fehltage(start, end) == IF start = NaT \/ end = NaT THEN NaN
                        ELSE end - start + 1

\* data_utils.py line 16, the columns of the table made when there is no
\* file; a file has these columns in its header
RECORD_COLUMNS == <<"Mitarbeiter-ID", "Name", "Startdatum", "Enddatum", "Grund">>

\* data_utils.py lines 6-16, the columns of the table returned: those of
\* line 16 when there is no file, else those of the file and Fehltage
\* (line 13 has run: the file has rows, or line 10 would have raised)
load_data_columns(file) ==
    IF ~file.exists
    THEN RECORD_COLUMNS
    ELSE Append(RECORD_COLUMNS, "Fehltage")

\* data_utils.py lines 9-13 on the rows of a file: the cells as read_csv
\* returns them, the dates normalised, and the Fehltage column
read_rows(rows) ==
    [i \in 1..Len(rows) |->
        LET c     == rows[i]
            start == read_date(c.Startdatum)
            end   == read_date(c.Enddatum)
        IN  [Mitarbeiter_ID |-> read_text(c.Mitarbeiter_ID),
             Name           |-> read_text(c.Name),
             Startdatum     |-> start,
             Enddatum       |-> end,
             Grund          |-> read_text(c.Grund),
             Fehltage       |-> fehltage(start, end)]]

\* data_utils.py lines 9-10 (main.py lines 40-41) on a file that holds the
\* header line only: read_csv has no value to parse, the date columns stay
\* of dtype object and .dt raises AttributeError, which line 15 does not
\* catch
load_data_raises(file) == file.exists /\ file.rows = <<>>

AttributeError == "AttributeError"

\* data_utils.py lines 6-16: the table returned, or the error raised
load_data(file) ==
    IF ~file.exists THEN <<>>
    ELSE IF load_data_raises(file) THEN AttributeError
    ELSE read_rows(file.rows)

\* DataFrame.to_csv(CSV_DATEI, sep=";", index=False): a missing value is
\* written as an empty cell, a timestamp at midnight as YYYY-MM-DD
write_text(x) == IF isna(x) THEN "" ELSE x
write_date(ts) == IF ts = NaT THEN <<>> ELSE CivilFromDays(ts)

to_csv(d) ==
    [exists |-> TRUE,
     rows   |-> [i \in 1..Len(d) |->
                   [Mitarbeiter_ID |-> write_text(d[i].Mitarbeiter_ID),
                    Name           |-> write_text(d[i].Name),
                    Startdatum     |-> write_date(d[i].Startdatum),
                    Enddatum       |-> write_date(d[i].Enddatum),
                    Grund          |-> write_text(d[i].Grund),
                    Fehltage       |-> IF \/ "Fehltage" \notin DOMAIN d[i]
                                          \/ d[i].Startdatum = NaT
                                          \/ d[i].Enddatum = NaT
                                       THEN <<>>
                                       ELSE <<d[i].Fehltage>>]]]

----------------------------------------------------------------------------
(* app.py: the add-click callback abwesenheit_hinzufuegen (lines 208-257).  *)
(* A form date is <<year, month, day>> (the DatePicker's text YYYY-MM-DD)   *)
(* or <<>> (None, a cleared picker); a text State is a str or None.         *)

\* Python truth of a str-or-None State value
truthy(x) == x # PyNone /\ x # ""
\* Python truth of a date State value
truthy_date(x) == x # <<>>

\* a check of name and dates only: not what line 210 checks; C3 tells the two
\* apart on a click without a reason
all_filled_ohne_grund(name, start_datum, end_datum, grund) ==
    truthy(name) /\ truthy_date(start_datum) /\ truthy_date(end_datum)

\* line 210: all([name, start_datum, end_datum, grund])
all_filled(name, start_datum, end_datum, grund) ==
    truthy(name) /\ truthy_date(start_datum) /\ truthy_date(end_datum) /\ truthy(grund)

\* lines 220-221: pd.to_datetime(text).normalize()
to_datetime(text) == DaysFromCivil(text[1], text[2], text[3])

\* a test that also rejects equal dates: not what line 222 tests; C4 tells
\* the two apart on a one-day absence
start_not_before_end(start_dt, end_dt) == start_dt >= end_dt

\* line 222: the handler rejects the dates when this holds
start_after_end(start_dt, end_dt) == start_dt > end_dt

\* lines 232-233
stored_grund(grund, anderer_grund) ==
    IF grund = "Andere" /\ truthy(anderer_grund) THEN anderer_grund ELSE grund

\* line 234: abwesenheiten[abwesenheiten["Name"] == name].head(1)
existing_row(tab, name) ==
    LET hits == SelectSeq(tab, LAMBDA r : r.Name = name)
    IN  IF hits = <<>> THEN <<>> ELSE <<hits[1]>>

\* line 235: f"EMP-{uuid.uuid4().hex[:8]}" draws one of 16^8 ids at random;
\* the model draws from two of them
UuidSamples == {"EMP-1a2b3c4d", "EMP-9f8e7d6c"}

\* an id drawn afresh for every record, also for a known name: not what
\* line 235 does; C16 tells the two apart
mitarbeiter_ids_immer_neu(tab, name) == UuidSamples

\* line 235: the ids the new record can get
mitarbeiter_ids(tab, name) ==
    IF existing_row(tab, name) # <<>>
    THEN {existing_row(tab, name)[1].Mitarbeiter_ID}
    ELSE UuidSamples

\* lines 236-243: pd.concat([abwesenheiten, pd.DataFrame([neuer_eintrag])]):
\* the rows of the table and the new record, which has no Fehltage yet
concat_neu(tab, mitarbeiter_id, name, start_dt, end_dt, grund) ==
    Append(tab, [Mitarbeiter_ID |-> mitarbeiter_id,
                 Name           |-> name,
                 Startdatum     |-> start_dt,
                 Enddatum       |-> end_dt,
                 Grund          |-> grund])

\* line 244: the column Fehltage is assigned for every row of the table
with_fehltage(tab) ==
    [i \in 1..Len(tab) |->
        [Mitarbeiter_ID |-> tab[i].Mitarbeiter_ID,
         Name           |-> tab[i].Name,
         Startdatum     |-> tab[i].Startdatum,
         Enddatum       |-> tab[i].Enddatum,
         Grund          |-> tab[i].Grund,
         Fehltage       |-> fehltage(tab[i].Startdatum, tab[i].Enddatum)]]

\* the new record placed first, pd.concat([pd.DataFrame([neuer_eintrag]),
\* abwesenheiten]): not the order of line 243; C17 tells the two apart
appended_vorne(tab, mitarbeiter_id, name, start_dt, end_dt, grund) ==
    with_fehltage(<<[Mitarbeiter_ID |-> mitarbeiter_id,
                     Name           |-> name,
                     Startdatum     |-> start_dt,
                     Enddatum       |-> end_dt,
                     Grund          |-> grund,
                     Fehltage       |-> NaN]>> \o tab)

\* lines 236-244: pd.concat([abwesenheiten, pd.DataFrame([neuer_eintrag])])
\* and the Fehltage column
appended(tab, mitarbeiter_id, name, start_dt, end_dt, grund) ==
    with_fehltage(Append(tab,
        [Mitarbeiter_ID |-> mitarbeiter_id,
         Name           |-> name,
         Startdatum     |-> start_dt,
         Enddatum       |-> end_dt,
         Grund          |-> grund,
         Fehltage       |-> NaN]))

MSG_FELDER == "Alle Felder müssen ausgefüllt werden!"
MSG_DATUM  == "Das Startdatum darf nicht nach dem Enddatum liegen!"
MSG_OK     == "Abwesenheit erfolgreich hinzugefügt!"

\* kind of the form input of a click, from the values the user entered
KlickArt(name, start_datum, end_datum, grund) ==
    IF \/ name = PyNone \/ name = ""
       \/ start_datum = <<>> \/ end_datum = <<>>
       \/ grund = PyNone \/ grund = ""
    THEN "feld_fehlt"
    ELSE IF DaysFromCivil(start_datum[1], start_datum[2], start_datum[3])
              > DaysFromCivil(end_datum[1], end_datum[2], end_datum[3])
         THEN "start_nach_ende"
         ELSE "gueltig"

----------------------------------------------------------------------------
(* data_utils.py: filter_date_range, and the download callbacks of app.py   *)

\* Output csv_download.data / excel_download.data when it is None
NoData == [filename |-> PyNone, content |-> <<>>]

MSG_EXPORT_FEHLT == "Bitte wählen Sie ein Start- und Enddatum aus."
MSG_EXPORT_DATUM == "Das Startdatum darf nicht nach dem Enddatum liegen!"
MSG_EXPORT_LEER  == "Keine Daten im ausgewählten Zeitraum gefunden!"

\* a mask that keeps every record overlapping the period: not what line 77
\* selects; C19 tells the two apart
in_range_overlap(row, start_dt, end_dt) ==
    /\ row.Startdatum # NaT /\ row.Startdatum <= end_dt
    /\ row.Enddatum # NaT /\ row.Enddatum >= start_dt

\* line 77: the boolean mask; a comparison with NaT is False
in_range(row, start_dt, end_dt) ==
    /\ row.Startdatum # NaT /\ row.Startdatum >= start_dt
    /\ row.Enddatum # NaT /\ row.Enddatum <= end_dt

\* the emptiness test of line 79 placed before the date-order test of line
\* 74: not the order of the code; C20 tells the two apart
filter_date_range_leer_zuerst(df, start_date, end_date) ==
    IF ~(truthy_date(start_date) /\ truthy_date(end_date))
    THEN [df |-> <<>>, fehler |-> MSG_EXPORT_FEHLT]
    ELSE LET start_dt    == to_datetime(start_date)
             end_dt      == to_datetime(end_date)
             filtered_df == SelectSeq(df, LAMBDA r : in_range(r, start_dt, end_dt))
         IN  IF filtered_df = <<>>
             THEN [df |-> <<>>, fehler |-> MSG_EXPORT_LEER]
             ELSE IF start_dt > end_dt
             THEN [df |-> <<>>, fehler |-> MSG_EXPORT_DATUM]
             ELSE [df |-> filtered_df, fehler |-> ""]

\* lines 66-82: the pair (filtered_df, error message); df = <<>> with a
\* message stands for None
filter_date_range(df, start_date, end_date) ==
    IF ~(truthy_date(start_date) /\ truthy_date(end_date))
    THEN [df |-> <<>>, fehler |-> MSG_EXPORT_FEHLT]
    ELSE LET start_dt    == to_datetime(start_date)
             end_dt      == to_datetime(end_date)
             filtered_df == SelectSeq(df, LAMBDA r : in_range(r, start_dt, end_dt))
         IN  IF start_dt > end_dt
             THEN [df |-> <<>>, fehler |-> MSG_EXPORT_DATUM]
             ELSE IF filtered_df = <<>>
             THEN [df |-> <<>>, fehler |-> MSG_EXPORT_LEER]
             ELSE [df |-> filtered_df, fehler |-> ""]

\* app.py lines 268-271 / 283-292: what a download callback returns for the
\* result of filter_date_range; dcc.send_data_frame writes the frame with
\* to_csv (csv) or to_excel (xlsx, typed cells)
download_result(art, ergebnis) ==
    IF ergebnis.fehler # ""
    THEN [data |-> NoData, fehler |-> ergebnis.fehler]
    ELSE [data   |-> IF art = "csv"
                     THEN [filename |-> "abwesenheitsaufzeichnungen.csv",
                           content  |-> to_csv(ergebnis.df).rows]
                     ELSE [filename |-> "abwesenheitsaufzeichnungen.xlsx",
                           content  |-> ergebnis.df],
          fehler |-> ""]

----------------------------------------------------------------------------
(* Bounds and sample inputs.                                                *)

\* longest table an add click may still extend
MaxRecords == 2
\* most rows of the CSV file found at start-up
MaxInitRows == 1
\* most rows of a table handed to the transform functions
MaxRows == 2

\* all sequences over S of length 0..n
SeqsUpTo(S, n) == UNION {[1..k -> S] : k \in 0..n}

\* rows of a file found at start-up: one written by an earlier session, one
\* written by hand without a Fehltage column, one with start after end, a
\* stale Fehltage and no reason, one without a start date
CsvRowSamples ==
    { [Mitarbeiter_ID |-> "EMP-1a2b3c4d", Name |-> "Anna",
       Startdatum |-> <<2025, 1, 30>>, Enddatum |-> <<2025, 1, 31>>,
       Grund |-> "Krank", Fehltage |-> <<2>>],
      [Mitarbeiter_ID |-> "EMP-9f8e7d6c", Name |-> "Ben",
       Startdatum |-> <<2025, 1, 31>>, Enddatum |-> <<2025, 2, 1>>,
       Grund |-> "Urlaub", Fehltage |-> <<>>],
      [Mitarbeiter_ID |-> "EMP-1a2b3c4d", Name |-> "Anna",
       Startdatum |-> <<2025, 2, 1>>, Enddatum |-> <<2025, 1, 31>>,
       Grund |-> "", Fehltage |-> <<7>>],
      [Mitarbeiter_ID |-> "EMP-9f8e7d6c", Name |-> "Ben",
       Startdatum |-> <<>>, Enddatum |-> <<2025, 1, 31>>,
       Grund |-> "Krank", Fehltage |-> <<>>] }

NoFile == [exists |-> FALSE, rows |-> <<>>]

InitialFiles ==
    {NoFile} \cup {[exists |-> TRUE, rows |-> r] : r \in SeqsUpTo(CsvRowSamples, MaxInitRows)}

\* values of the form's State inputs
NameSamples    == {PyNone, "", "Anna", "NA"}
StartSamples   == {<<>>, <<2025, 1, 31>>, <<2025, 2, 2>>}
EndSamples     == {<<>>, <<2025, 1, 31>>, <<2025, 2, 1>>}
GrundSamples   == {PyNone, "Krank", "Andere"}
AndererSamples == {PyNone, "Kur"}

\* longest file found at start-up when the downloads are explored
MaxExportRows == 2

\* rows of such a file, placed around the export dates below: inside
\* 10-15 January, exactly 10-15 January, starting before the 10th, ending
\* after the 15th, and after the 20th
ExportRowSamples ==
    { [Mitarbeiter_ID |-> "EMP-1a2b3c4d", Name |-> "Anna",
       Startdatum |-> <<2025, 1, 11>>, Enddatum |-> <<2025, 1, 12>>,
       Grund |-> "Krank", Fehltage |-> <<2>>],
      [Mitarbeiter_ID |-> "EMP-1a2b3c4d", Name |-> "Anna",
       Startdatum |-> <<2025, 1, 10>>, Enddatum |-> <<2025, 1, 15>>,
       Grund |-> "Urlaub", Fehltage |-> <<6>>],
      [Mitarbeiter_ID |-> "EMP-9f8e7d6c", Name |-> "Ben",
       Startdatum |-> <<2025, 1, 8>>, Enddatum |-> <<2025, 1, 12>>,
       Grund |-> "Krank", Fehltage |-> <<5>>],
      [Mitarbeiter_ID |-> "EMP-9f8e7d6c", Name |-> "Ben",
       Startdatum |-> <<2025, 1, 12>>, Enddatum |-> <<2025, 1, 18>>,
       Grund |-> "Urlaub", Fehltage |-> <<7>>],
      [Mitarbeiter_ID |-> "EMP-9f8e7d6c", Name |-> "Ben",
       Startdatum |-> <<2025, 1, 25>>, Enddatum |-> <<2025, 1, 26>>,
       Grund |-> "Krank", Fehltage |-> <<2>>] }

ExportFiles ==
    {NoFile} \cup {[exists |-> TRUE, rows |-> r] :
                      r \in SeqsUpTo(ExportRowSamples, MaxExportRows)}

\* values of the export date pickers
ExportStartSamples == {<<>>, <<2025, 1, 10>>, <<2025, 1, 20>>}
ExportEndSamples   == {<<>>, <<2025, 1, 15>>, <<2025, 1, 20>>}

\* tables handed to the transform functions.  Intervals of 10, 11 and 20
\* days across the turn of the year and one with start after end; two
\* employees of the same name, and one whose name is missing
Fn10Tage    == <<DaysFromCivil(2024, 12, 23), DaysFromCivil(2025, 1, 1)>>
Fn11Tage    == <<DaysFromCivil(2024, 12, 31), DaysFromCivil(2025, 1, 10)>>
Fn20Tage    == <<DaysFromCivil(2025, 1, 1),   DaysFromCivil(2025, 1, 20)>>
FnVerkehrt  == <<DaysFromCivil(2025, 1, 2),   DaysFromCivil(2025, 1, 1)>>
\* two days in February, with days without any absence before them
FnSpaeter   == <<DaysFromCivil(2025, 2, 3),   DaysFromCivil(2025, 2, 4)>>

FnRecord(e, iv, g) ==
    [Mitarbeiter_ID |-> e[1], Name |-> e[2], Startdatum |-> iv[1],
     Enddatum |-> iv[2], Grund |-> g, Fehltage |-> fehltage(iv[1], iv[2])]

\* one employee with every interval and stated reason, and with two
\* intervals without a reason; her namesake with two intervals; the
\* employee without a name with one
FnRecords ==
    {FnRecord(<<"EMP-1a2b3c4d", "Anna">>, iv, g) :
        iv \in {Fn10Tage, Fn11Tage, Fn20Tage, FnVerkehrt}, g \in {"Krank", "Urlaub"}}
    \cup {FnRecord(<<"EMP-9f8e7d6c", "Anna">>, iv, g) :
        iv \in {Fn10Tage, Fn20Tage}, g \in {"Krank", "Urlaub"}}
    \cup {FnRecord(<<"EMP-9f8e7d6c", NaN>>, Fn10Tage, g) : g \in {"Krank", "Urlaub"}}
    \cup {FnRecord(<<"EMP-1a2b3c4d", "Anna">>, iv, NaN) : iv \in {Fn11Tage, FnVerkehrt}}
    \cup {FnRecord(<<"EMP-1a2b3c4d", "Anna">>, FnSpaeter, "Urlaub")}

FnTables == SeqsUpTo(FnRecords, MaxRows)

----------------------------------------------------------------------------
(* State machine.                                                           *)

NoFigures == [grund |-> dummy_figure, wochentag |-> dummy_figure,
              monat |-> dummy_figure, statistik |-> dummy_figure]

\* no download callback has run yet
NoExport == [art |-> "kein", von |-> <<>>, bis |-> <<>>, data |-> NoData, fehler |-> PyNone]

\* main.py has not been started
MainNichtGestartet == [pc |-> "aus"]

\* no transform function has been called again since the start-up
KeineAufrufe == [expand_abwesenheiten |-> <<>>, create_krank_uebersicht |-> <<>>,
                 generate_figures |-> <<>>, filter_date_range |-> <<>>]

\* the process starts: nothing of the module has run yet
Init ==
    /\ csv_datei \in InitialFiles
    /\ abwesenheiten = <<>>
    /\ expanded_df = <<>>
    /\ rueckmeldung = PyNone
    /\ tabelle_data = <<>>
    /\ krank_data = <<>>
    /\ figuren = NoFigures
    /\ letzter_klick = "kein"
    /\ pc = "import"
    /\ export = NoExport
    /\ main = MainNichtGestartet
    /\ anfragen = <<>>
    /\ tabelle_columns = <<>>
    /\ gen = KeinLauf
    /\ aufrufe = KeineAufrufe

\* app.py line 20; an AttributeError ends the process
LoadData ==
    /\ pc = "import"
    /\ IF load_data_raises(csv_datei)
       THEN pc' = AttributeError /\ UNCHANGED abwesenheiten
       ELSE pc' = "loaded" /\ abwesenheiten' = load_data(csv_datei)
    /\ UNCHANGED <<csv_datei, expanded_df, rueckmeldung, tabelle_data,
                   krank_data, figuren, letzter_klick>>
    /\ UNCHANGED andere

\* app.py line 21; a ValueError ends the process
ExpandInitial ==
    /\ pc = "loaded"
    /\ IF expand_raises(abwesenheiten)
       THEN pc' = "ValueError" /\ UNCHANGED expanded_df
       ELSE pc' = "expanded" /\ expanded_df' = expand_abwesenheiten(abwesenheiten)
    /\ UNCHANGED <<abwesenheiten, csv_datei, rueckmeldung, tabelle_data,
                   krank_data, figuren, letzter_klick>>
    /\ UNCHANGED andere

\* app.py lines 22-27
FiguresInitial ==
    /\ pc = "expanded"
    /\ figuren' = generate_figures(expanded_df)
    /\ pc' = "figures"
    /\ UNCHANGED <<abwesenheiten, csv_datei, expanded_df, rueckmeldung,
                   tabelle_data, krank_data, letzter_klick>>
    /\ UNCHANGED andere

\* app.py line 28 (and line 160, its records)
KrankInitial ==
    /\ pc = "figures"
    /\ krank_data' = create_krank_uebersicht(abwesenheiten)
    /\ pc' = "layout"
    /\ UNCHANGED <<abwesenheiten, csv_datei, expanded_df, rueckmeldung,
                   tabelle_data, figuren, letzter_klick>>
    /\ UNCHANGED andere

\* app.py lines 30-181: the layout shows the table, with the columns the
\* table has now (line 109; csv_datei is still the file of the start-up);
\* the server starts
Layout ==
    /\ pc = "layout"
    /\ tabelle_data' = abwesenheiten
    /\ tabelle_columns' = load_data_columns(csv_datei)
    /\ pc' = "serving"
    /\ UNCHANGED <<abwesenheiten, csv_datei, expanded_df, rueckmeldung,
                   krank_data, figuren, letzter_klick, export, main, anfragen,
                   gen, aufrufe>>

\* the handler with the summary computed before the append (line 247 moved
\* above line 243): not the order of the code; C14 tells the two apart
abwesenheit_hinzufuegen_alte_uebersicht(name, start_datum, end_datum, grund, anderer_grund) ==
    /\ pc = "serving"
    /\ letzter_klick' = KlickArt(name, start_datum, end_datum, grund)
    /\ IF ~all_filled(name, start_datum, end_datum, grund)
       THEN /\ rueckmeldung' = MSG_FELDER
            /\ tabelle_data' = abwesenheiten
            /\ krank_data' = <<>>
            /\ figuren' = NoFigures
            /\ UNCHANGED <<abwesenheiten, csv_datei, expanded_df, pc>>
       ELSE IF start_after_end(to_datetime(start_datum), to_datetime(end_datum))
       THEN /\ rueckmeldung' = MSG_DATUM
            /\ tabelle_data' = abwesenheiten
            /\ krank_data' = <<>>
            /\ figuren' = NoFigures
            /\ UNCHANGED <<abwesenheiten, csv_datei, expanded_df, pc>>
       ELSE /\ Len(abwesenheiten) < MaxRecords
            /\ \E mitarbeiter_id \in mitarbeiter_ids(abwesenheiten, name) :
                 abwesenheiten' = appended(abwesenheiten, mitarbeiter_id, name,
                                           to_datetime(start_datum),
                                           to_datetime(end_datum),
                                           stored_grund(grund, anderer_grund))
            /\ csv_datei' = to_csv(abwesenheiten')
            /\ expanded_df' = expand_abwesenheiten(abwesenheiten')
            /\ krank_data' = create_krank_uebersicht(abwesenheiten)
            /\ figuren' = generate_figures(expanded_df')
            /\ rueckmeldung' = MSG_OK
            /\ tabelle_data' = abwesenheiten'
            /\ UNCHANGED pc

\* app.py lines 208-257, one click with the given State values, handled
\* while no other request is in the handler: the handler from its first
\* line to its return.  The steps in which requests handled at the same
\* time interleave are Pruefen to Antworten below.
abwesenheit_hinzufuegen(name, start_datum, end_datum, grund, anderer_grund) ==
    /\ pc = "serving"
    /\ letzter_klick' = KlickArt(name, start_datum, end_datum, grund)
    /\ IF ~all_filled(name, start_datum, end_datum, grund)
       THEN /\ rueckmeldung' = MSG_FELDER
            /\ tabelle_data' = abwesenheiten
            /\ krank_data' = <<>>
            /\ figuren' = NoFigures
            /\ UNCHANGED <<abwesenheiten, csv_datei, expanded_df, pc>>
       ELSE IF start_after_end(to_datetime(start_datum), to_datetime(end_datum))
       THEN /\ rueckmeldung' = MSG_DATUM
            /\ tabelle_data' = abwesenheiten
            /\ krank_data' = <<>>
            /\ figuren' = NoFigures
            /\ UNCHANGED <<abwesenheiten, csv_datei, expanded_df, pc>>
       ELSE /\ Len(abwesenheiten) < MaxRecords
            /\ \E mitarbeiter_id \in mitarbeiter_ids(abwesenheiten, name) :
                 abwesenheiten' = appended(abwesenheiten, mitarbeiter_id, name,
                                           to_datetime(start_datum),
                                           to_datetime(end_datum),
                                           stored_grund(grund, anderer_grund))
            /\ csv_datei' = to_csv(abwesenheiten')
            /\ expanded_df' = expand_abwesenheiten(abwesenheiten')
            /\ krank_data' = create_krank_uebersicht(abwesenheiten')
            /\ figuren' = generate_figures(expanded_df')
            /\ rueckmeldung' = MSG_OK
            /\ tabelle_data' = abwesenheiten'
            /\ UNCHANGED pc

AddClick ==
    \E name \in NameSamples, start_datum \in StartSamples, end_datum \in EndSamples,
       grund \in GrundSamples, anderer_grund \in AndererSamples :
        /\ abwesenheit_hinzufuegen(name, start_datum, end_datum, grund, anderer_grund)
        /\ UNCHANGED andere

Next == LoadData \/ ExpandInitial \/ FiguresInitial \/ KrankInitial \/ Layout \/ AddClick

Spec == Init /\ [][Next]_vars

\* the transform functions on bounded tables: the start-up code of lines
\* 21-28 run on each table of FnTables
InitFn ==
    /\ abwesenheiten \in FnTables
    /\ csv_datei = NoFile
    /\ expanded_df = <<>>
    /\ rueckmeldung = PyNone
    /\ tabelle_data = <<>>
    /\ krank_data = <<>>
    /\ figuren = NoFigures
    /\ letzter_klick = "kein"
    /\ pc = "loaded"
    /\ export = NoExport
    /\ main = MainNichtGestartet
    /\ anfragen = <<>>
    /\ tabelle_columns = <<>>
    /\ gen = KeinLauf
    /\ aufrufe = KeineAufrufe

NextFn == ExpandInitial \/ FiguresInitial \/ KrankInitial

SpecFn == InitFn /\ [][NextFn]_vars

\* app.py lines 259-271, one click on "CSV herunterladen"
download_csv(start_datum, end_datum) ==
    /\ pc = "serving"
    /\ LET r == download_result("csv",
                    filter_date_range(abwesenheiten, start_datum, end_datum))
       IN  export' = [art |-> "csv", von |-> start_datum, bis |-> end_datum,
                      data |-> r.data, fehler |-> r.fehler]
    /\ UNCHANGED <<abwesenheiten, csv_datei, expanded_df, rueckmeldung, tabelle_data,
                   krank_data, figuren, letzter_klick, pc, main, anfragen,
                   tabelle_columns, gen, aufrufe>>

\* an Excel download that writes the filtered table to CSV_DATEI: not what
\* lines 283-292 do; C21 tells the two apart
download_excel_speichert(start_datum, end_datum) ==
    /\ pc = "serving"
    /\ LET f == filter_date_range(abwesenheiten, start_datum, end_datum)
           r == download_result("xlsx", f)
       IN  /\ export' = [art |-> "xlsx", von |-> start_datum, bis |-> end_datum,
                         data |-> r.data, fehler |-> r.fehler]
           /\ csv_datei' = IF f.fehler = "" THEN to_csv(f.df) ELSE csv_datei
    /\ UNCHANGED <<abwesenheiten, expanded_df, rueckmeldung, tabelle_data,
                   krank_data, figuren, letzter_klick, pc, main, anfragen,
                   tabelle_columns, gen, aufrufe>>

\* app.py lines 274-292, one click on "Excel herunterladen"
download_excel(start_datum, end_datum) ==
    /\ pc = "serving"
    /\ LET r == download_result("xlsx",
                    filter_date_range(abwesenheiten, start_datum, end_datum))
       IN  export' = [art |-> "xlsx", von |-> start_datum, bis |-> end_datum,
                      data |-> r.data, fehler |-> r.fehler]
    /\ UNCHANGED <<abwesenheiten, csv_datei, expanded_df, rueckmeldung, tabelle_data,
                   krank_data, figuren, letzter_klick, pc, main, anfragen,
                   tabelle_columns, gen, aufrufe>>

DownloadCsvClick ==
    \E start_datum \in ExportStartSamples, end_datum \in ExportEndSamples :
        download_csv(start_datum, end_datum)

DownloadExcelClick ==
    \E start_datum \in ExportStartSamples, end_datum \in ExportEndSamples :
        download_excel(start_datum, end_datum)

\* the downloads on the running application: start-up from a file, then
\* download clicks
InitExport ==
    /\ csv_datei \in ExportFiles
    /\ abwesenheiten = <<>>
    /\ expanded_df = <<>>
    /\ rueckmeldung = PyNone
    /\ tabelle_data = <<>>
    /\ krank_data = <<>>
    /\ figuren = NoFigures
    /\ letzter_klick = "kein"
    /\ pc = "import"
    /\ export = NoExport
    /\ main = MainNichtGestartet
    /\ anfragen = <<>>
    /\ tabelle_columns = <<>>
    /\ gen = KeinLauf
    /\ aufrufe = KeineAufrufe

NextExport ==
    LoadData \/ ExpandInitial \/ FiguresInitial \/ KrankInitial \/ Layout
    \/ DownloadCsvClick \/ DownloadExcelClick

SpecExport == InitExport /\ [][NextExport]_vars

----------------------------------------------------------------------------
(* main.py, the monolithic variant, run side by side with app.py: both      *)
(* start from a copy of the same CSV file and get the same add clicks.      *)
(* `main` holds the state of the main.py process.                           *)

\* main.py lines 49-74: a record with a missing date is skipped (lines
\* 58-59) before pd.date_range is called
expand_abwesenheiten_main(df) ==
    Concat([i \in 1..Len(df) |->
              IF df[i].Startdatum = NaT \/ df[i].Enddatum = NaT
              THEN <<>> ELSE expand_row(df[i])])

\* main.py lines 76-289: the code of figures.py, inlined
generate_figures_from_expanded(e) == generate_figures(e)

\* main.py lines 291-319: the code of data_utils.py lines 48-63
create_krank_uebersicht_df(df) == create_krank_uebersicht(df)

\* main.py line 630: not name or not start_datum or not end_datum or not grund
feld_fehlt_main(name, start_datum, end_datum, grund) ==
    ~truthy(name) \/ ~truthy_date(start_datum) \/ ~truthy_date(end_datum) \/ ~truthy(grund)

\* main.py lines 654-655: if grund == "Andere": grund = anderer_grund
stored_grund_main(grund, anderer_grund) ==
    IF grund = "Andere" THEN anderer_grund ELSE grund

\* the custom-reason input: never touched (None), typed and cleared (""),
\* or filled in
AndererSamplesMain == AndererSamples \cup {""}

\* the names typed in the side-by-side run
NameSamplesMain == {PyNone, "Anna"}

\* main.py lines 39-44 and 324-331, then the layout: the module runs to
\* app.run_server, or line 41 raises AttributeError and the process ends
MainStart ==
    /\ main.pc = "import"
    /\ IF load_data_raises(main.csv_datei)
       THEN main' = [main EXCEPT !.pc = AttributeError]
       ELSE LET tab == load_data(main.csv_datei)
                exp == expand_abwesenheiten_main(tab)
            IN  main' = [pc            |-> "serving",
                         csv_datei     |-> main.csv_datei,
                         abwesenheiten |-> tab,
                         expanded_df   |-> exp,
                         rueckmeldung  |-> PyNone,
                         tabelle_data  |-> tab,
                         krank_data    |-> create_krank_uebersicht_df(tab),
                         figuren       |-> generate_figures_from_expanded(exp)]
    /\ UNCHANGED <<abwesenheiten, csv_datei, expanded_df, rueckmeldung, tabelle_data,
                   krank_data, figuren, letzter_klick, pc, export, anfragen,
                   tabelle_columns, gen, aufrufe>>

\* main.py lines 627-692, one click with the given State values, handled
\* while no other request is in the handler: the handler from its first
\* line to its return.  The steps in which requests handled at the same
\* time interleave are Pruefen_main to Antworten_main below.
abwesenheit_hinzufuegen_main(name, start_datum, end_datum, grund, anderer_grund) ==
    /\ main.pc = "serving"
    /\ IF feld_fehlt_main(name, start_datum, end_datum, grund)
       THEN main' = [main EXCEPT !.rueckmeldung = MSG_FELDER,
                                 !.tabelle_data = main.abwesenheiten,
                                 !.krank_data   = <<>>,
                                 !.figuren      = NoFigures]
       ELSE IF to_datetime(start_datum) > to_datetime(end_datum)
       THEN main' = [main EXCEPT !.rueckmeldung = MSG_DATUM,
                                 !.tabelle_data = main.abwesenheiten,
                                 !.krank_data   = <<>>,
                                 !.figuren      = NoFigures]
       ELSE /\ Len(main.abwesenheiten) < MaxRecords
            /\ \E mitarbeiter_id \in mitarbeiter_ids(main.abwesenheiten, name) :
                 LET tab == appended(main.abwesenheiten, mitarbeiter_id, name,
                                     to_datetime(start_datum),
                                     to_datetime(end_datum),
                                     stored_grund_main(grund, anderer_grund))
                     exp == expand_abwesenheiten_main(tab)
                 IN  main' = [pc            |-> "serving",
                              csv_datei     |-> to_csv(tab),
                              abwesenheiten |-> tab,
                              expanded_df   |-> exp,
                              rueckmeldung  |-> MSG_OK,
                              tabelle_data  |-> tab,
                              krank_data    |-> create_krank_uebersicht_df(tab),
                              figuren       |-> generate_figures_from_expanded(exp)]

\* one click handled by both variants, each in its own process: when both
\* generate an id (line 235, main.py line 661) each draws its own
KlickBeide ==
    \E name \in NameSamplesMain, start_datum \in StartSamples, end_datum \in EndSamples,
       grund \in GrundSamples, anderer_grund \in AndererSamplesMain :
        /\ abwesenheit_hinzufuegen(name, start_datum, end_datum, grund, anderer_grund)
        /\ abwesenheit_hinzufuegen_main(name, start_datum, end_datum, grund, anderer_grund)
        /\ UNCHANGED <<export, anfragen, tabelle_columns, gen, aufrufe>>

\* app.py has ended with an error at start-up: the click reaches main.py
\* alone
KlickMain ==
    /\ pc \in {"ValueError", AttributeError}
    /\ \E name \in NameSamplesMain, start_datum \in StartSamples, end_datum \in EndSamples,
          grund \in GrundSamples, anderer_grund \in AndererSamplesMain :
           abwesenheit_hinzufuegen_main(name, start_datum, end_datum, grund, anderer_grund)
    /\ UNCHANGED <<abwesenheiten, csv_datei, expanded_df, rueckmeldung, tabelle_data,
                   krank_data, figuren, letzter_klick, pc, export, anfragen,
                   tabelle_columns, gen, aufrufe>>

\* both processes are about to start on copies of one file
InitVar ==
    /\ csv_datei \in InitialFiles
    /\ abwesenheiten = <<>>
    /\ expanded_df = <<>>
    /\ rueckmeldung = PyNone
    /\ tabelle_data = <<>>
    /\ krank_data = <<>>
    /\ figuren = NoFigures
    /\ letzter_klick = "kein"
    /\ pc = "import"
    /\ export = NoExport
    /\ main = [pc            |-> "import",
               csv_datei     |-> csv_datei,
               abwesenheiten |-> <<>>,
               expanded_df   |-> <<>>,
               rueckmeldung  |-> PyNone,
               tabelle_data  |-> <<>>,
               krank_data    |-> <<>>,
               figuren       |-> NoFigures]
    /\ anfragen = <<>>
    /\ tabelle_columns = <<>>
    /\ gen = KeinLauf
    /\ aufrufe = KeineAufrufe

NextVar ==
    LoadData \/ ExpandInitial \/ FiguresInitial \/ KrankInitial \/ Layout
    \/ MainStart \/ KlickBeide \/ KlickMain

SpecVar == InitVar /\ [][NextVar]_vars

----------------------------------------------------------------------------
(* Add requests handled at the same time.  A Dash callback is a Flask view  *)
(* function; the server the repository starts (main.py line 772,            *)
(* app.run_server) is Flask's development server, which handles every       *)
(* request in a thread of its own, and neither handler takes a lock.  The   *)
(* handlers of app.py lines 208-257 and of main.py lines 627-692 are        *)
(* therefore run here in the steps in which they read and write the global  *)
(* table and the file of their process.  `anfragen` holds the requests: the *)
(* program each was sent to, its position in the handler, its State values, *)
(* the id, the table pd.concat has made for it (lokal) and whether the      *)
(* global name refers to that table (gebunden), the column and the Series   *)
(* the Fehltage line has computed so far, the table to_csv was called on    *)
(* (frame), whether that table had the column Fehltage when to_csv took its *)
(* columns (spalten), the text to_csv has formatted (text), the expanded    *)
(* rows and the summary, and its response.  A table is an object: the       *)
(* Fehltage line stores the column into the table the name refers to, which *)
(* may be the table of another request, and to_csv formats the table it was *)
(* called on as it is when the rows are formatted.                          *)

MaxAnfragen == 2

\* the files the server of the concurrent run starts from
RaceFiles ==
    {NoFile,
     [exists |-> TRUE,
      rows   |-> <<[Mitarbeiter_ID |-> "EMP-1a2b3c4d", Name |-> "Anna",
                    Startdatum |-> <<2025, 1, 30>>, Enddatum |-> <<2025, 1, 31>>,
                    Grund |-> "Krank", Fehltage |-> <<2>>]>>]}

\* the State values of the requests: two complete forms and one without a
\* name
RaceKlicks ==
    {[name |-> "Anna", start_datum |-> <<2025, 1, 31>>, end_datum |-> <<2025, 2, 1>>,
      grund |-> "Krank", anderer_grund |-> PyNone],
     [name |-> "Ben", start_datum |-> <<2025, 2, 2>>, end_datum |-> <<2025, 2, 2>>,
      grund |-> "Andere", anderer_grund |-> "Kur"],
     [name |-> PyNone, start_datum |-> <<2025, 1, 31>>, end_datum |-> <<2025, 2, 1>>,
      grund |-> "Krank", anderer_grund |-> PyNone]}

KeineAntwort == [rueckmeldung |-> PyNone, tabelle_data |-> <<>>,
                 krank_data |-> <<>>, figuren |-> NoFigures]

\* a request with the State values k that has just entered the handler of
\* the program: app.py line 208, main.py line 627
NeueAnfrage(programm, k) ==
    [programm |-> programm, pc |-> IF programm = "app.py" THEN "210" ELSE "630",
     klick |-> k, mitarbeiter_id |-> PyNone,
     lokal |-> <<>>, gebunden |-> FALSE,
     enddatum |-> <<>>, serie |-> <<>>, frame |-> 0,
     spalten |-> FALSE, text |-> <<>>,
     expanded_df |-> <<>>,
     krank |-> <<>>, antwort |-> KeineAntwort]

\* every request received so far has returned
alle_fertig == \A t \in 1..Len(anfragen) : anfragen[t].pc = "fertig"

\* the variables of the app.py process other than its table and its file
app_anzeige == <<expanded_df, rueckmeldung, tabelle_data, krank_data, figuren,
                 letzter_klick, pc>>

\* the other program is not in the middle of its start-up: the clicks
\* explored come when the start-up of both programs is over
main_gestartet == main.pc # "import"
app_gestartet  == pc \notin {"import", "loaded", "expanded", "figures", "layout"}

\* a click reaches the server of app.py: a thread enters the handler at line
\* 208, whatever the other threads are doing
Ankunft ==
    /\ pc = "serving"
    /\ main_gestartet
    /\ Len(anfragen) < MaxAnfragen
    /\ \E k \in RaceKlicks :
          anfragen' = Append(anfragen, NeueAnfrage("app.py", k))
    /\ UNCHANGED <<abwesenheiten, csv_datei, app_anzeige, export, main,
                   tabelle_columns, gen, aufrufe>>

\* a click of the given clicks reaches the server of app.py when every
\* earlier request has returned: one user, who waits for the response
AnkunftEinzeln(klicks) ==
    /\ pc = "serving"
    /\ main_gestartet
    /\ Len(anfragen) < MaxAnfragen
    /\ alle_fertig
    /\ \E k \in klicks :
          anfragen' = Append(anfragen, NeueAnfrage("app.py", k))
    /\ UNCHANGED <<abwesenheiten, csv_datei, app_anzeige, export, main,
                   tabelle_columns, gen, aufrufe>>

\* lines 210-231 of request t: the two checks; a rejecting return reads the
\* global table for the response
Pruefen(t) ==
    /\ anfragen[t].pc = "210"
    /\ LET k == anfragen[t].klick
       IN  IF ~all_filled(k.name, k.start_datum, k.end_datum, k.grund)
           THEN anfragen' = [anfragen EXCEPT ![t].pc = "fertig",
                                 ![t].antwort = [rueckmeldung |-> MSG_FELDER,
                                                 tabelle_data |-> abwesenheiten,
                                                 krank_data   |-> <<>>,
                                                 figuren      |-> NoFigures]]
           ELSE IF start_after_end(to_datetime(k.start_datum), to_datetime(k.end_datum))
           THEN anfragen' = [anfragen EXCEPT ![t].pc = "fertig",
                                 ![t].antwort = [rueckmeldung |-> MSG_DATUM,
                                                 tabelle_data |-> abwesenheiten,
                                                 krank_data   |-> <<>>,
                                                 figuren      |-> NoFigures]]
           ELSE anfragen' = [anfragen EXCEPT ![t].pc = "234"]
    /\ UNCHANGED <<abwesenheiten, csv_datei, app_anzeige, export, main,
                   tabelle_columns, gen, aufrufe>>

\* lines 234-235 of request t: the global table is read for the id
IdWaehlen(t) ==
    /\ anfragen[t].pc = "234"
    /\ \E mitarbeiter_id \in mitarbeiter_ids(abwesenheiten, anfragen[t].klick.name) :
          anfragen' = [anfragen EXCEPT ![t].pc = "243",
                                       ![t].mitarbeiter_id = mitarbeiter_id]
    /\ UNCHANGED <<abwesenheiten, csv_datei, app_anzeige, export, main,
                   tabelle_columns, gen, aufrufe>>

\* lines 236-243 of request t, the right-hand side: the global table is read
\* and pd.concat builds a new table from it and the new record
ConcatLesen(t) ==
    /\ anfragen[t].pc = "243"
    /\ LET k == anfragen[t].klick
       IN  anfragen' = [anfragen EXCEPT
                           ![t].pc = "243=",
                           ![t].lokal = concat_neu(abwesenheiten, anfragen[t].mitarbeiter_id,
                                                   k.name, to_datetime(k.start_datum),
                                                   to_datetime(k.end_datum),
                                                   stored_grund(k.grund, k.anderer_grund))]
    /\ UNCHANGED <<abwesenheiten, csv_datei, app_anzeige, export, main,
                   tabelle_columns, gen, aufrufe>>

\* the request of the program whose table the global name of that program
\* refers to; 0 while it still refers to the table read at start-up
global_ref(programm) ==
    IF \E t \in 1..Len(anfragen) : anfragen[t].programm = programm /\ anfragen[t].gebunden
    THEN CHOOSE t \in 1..Len(anfragen) :
            anfragen[t].programm = programm /\ anfragen[t].gebunden
    ELSE 0

\* the requests after request t of a program has bound the global name to
\* its table and moved on to the position weiter
gebunden_an(t, weiter) ==
    [u \in 1..Len(anfragen) |->
        IF u = t
        THEN [anfragen[u] EXCEPT !.pc = weiter, !.gebunden = TRUE]
        ELSE IF anfragen[u].programm = anfragen[t].programm
        THEN [anfragen[u] EXCEPT !.gebunden = FALSE]
        ELSE anfragen[u]]

\* line 243 of request t, the assignment: the global name refers to the new
\* table, whose new record has no Fehltage yet
Zuweisen(t) ==
    /\ anfragen[t].pc = "243="
    /\ abwesenheiten' = anfragen[t].lokal
    /\ anfragen' = gebunden_an(t, "244")
    /\ UNCHANGED <<csv_datei, app_anzeige, export, main,
                   tabelle_columns, gen, aufrufe>>

\* line 244, abwesenheiten["Enddatum"] - abwesenheiten["Startdatum"] and
\* .dt.days + 1: the two columns are aligned on their row labels 0, 1, ...;
\* a row that only one of them has gets NaN (here <<>>)
fehltage_serie(enddatum, startdatum) ==
    LET n == IF Len(enddatum) > Len(startdatum) THEN Len(enddatum) ELSE Len(startdatum)
    IN  [i \in 1..n |->
            IF i <= Len(enddatum) /\ i <= Len(startdatum)
            THEN <<fehltage(startdatum[i], enddatum[i])>>
            ELSE <<>>]

\* line 244, abwesenheiten["Fehltage"] = serie: the column of the table is
\* replaced, the Series aligned on the row labels of the table; a row the
\* Series has no value for has NaN (no Fehltage)
setitem_fehltage(tab, serie) ==
    [i \in 1..Len(tab) |->
        IF i <= Len(serie) /\ serie[i] # <<>>
        THEN [Mitarbeiter_ID |-> tab[i].Mitarbeiter_ID,
              Name           |-> tab[i].Name,
              Startdatum     |-> tab[i].Startdatum,
              Enddatum       |-> tab[i].Enddatum,
              Grund          |-> tab[i].Grund,
              Fehltage       |-> serie[i][1]]
        ELSE [Mitarbeiter_ID |-> tab[i].Mitarbeiter_ID,
              Name           |-> tab[i].Name,
              Startdatum     |-> tab[i].Startdatum,
              Enddatum       |-> tab[i].Enddatum,
              Grund          |-> tab[i].Grund]]

\* the requests after request t has stored the table neu in place of the
\* table the global name of its program refers to, and moved on to weiter;
\* the column and the Series of request t are temporaries of the line, gone
\* after it
gespeichert_in(t, neu, weiter) ==
    [u \in 1..Len(anfragen) |->
        [anfragen[u] EXCEPT
           !.pc       = IF u = t THEN weiter ELSE anfragen[u].pc,
           !.enddatum = IF u = t THEN <<>> ELSE anfragen[u].enddatum,
           !.serie    = IF u = t THEN <<>> ELSE anfragen[u].serie,
           !.lokal    = IF u = global_ref(anfragen[t].programm)
                        THEN neu ELSE anfragen[u].lokal]]

\* line 244 of request t, the first load of the global name: the column
\* Enddatum of the table it refers to now
FehltageEnddatum(t) ==
    /\ anfragen[t].pc = "244"
    /\ anfragen' = [anfragen EXCEPT
                       ![t].pc = "244b",
                       ![t].enddatum = [i \in 1..Len(abwesenheiten) |->
                                           abwesenheiten[i].Enddatum]]
    /\ UNCHANGED <<abwesenheiten, csv_datei, app_anzeige, export, main,
                   tabelle_columns, gen, aufrufe>>

\* line 244 of request t, the second load: the column Startdatum of the
\* table the name refers to now, and the Series of the day counts
FehltageSerie(t) ==
    /\ anfragen[t].pc = "244b"
    /\ anfragen' = [anfragen EXCEPT
                       ![t].pc = "244c",
                       ![t].serie = fehltage_serie(anfragen[t].enddatum,
                                        [i \in 1..Len(abwesenheiten) |->
                                            abwesenheiten[i].Startdatum])]
    /\ UNCHANGED <<abwesenheiten, csv_datei, app_anzeige, export, main,
                   tabelle_columns, gen, aufrufe>>

\* line 244 of request t, the third load and the store: the Series becomes
\* the column Fehltage of the table the name refers to now, in place
FehltageSetzen(t) ==
    /\ anfragen[t].pc = "244c"
    /\ LET neu == setitem_fehltage(abwesenheiten, anfragen[t].serie)
       IN  /\ abwesenheiten' = neu
           /\ anfragen' = gespeichert_in(t, neu, "245")
    /\ UNCHANGED <<csv_datei, app_anzeige, export, main,
                   tabelle_columns, gen, aufrufe>>

RECURSIVE ziffern(_)
\* the number of characters of str(n), n an integer
ziffern(n) == IF n < 0 THEN 1 + ziffern(0 - n)
              ELSE IF n < 10 THEN 1 ELSE 1 + ziffern(n \div 10)

\* the table d has the column Fehltage
hat_fehltage(d) == \E i \in 1..Len(d) : "Fehltage" \in DOMAIN d[i]

\* to_csv(CSV_DATEI, sep=";", index=False): the lines to_csv formats for the
\* rows of the table d, each with the number of its bytes (the texts here
\* are ASCII): the header and one line per row, the cells separated by ";",
\* every line ended by "\n"; a date is written as YYYY-MM-DD, a missing
\* value as nothing.  The columns are those to_csv took when it was called:
\* the column Fehltage is written when the table had it then
\* (fehltage_spalte), as a float (2.0) when a value of it is missing.  `ab`
\* counts the bytes a line has lost at its front.
csv_zeilen(d, fehltage_spalte) ==
    LET fehlt(r)   == "Fehltage" \notin DOMAIN r \/ r.Startdatum = NaT \/ r.Enddatum = NaT
        gleitkomma == \E i \in 1..Len(d) : fehlt(d[i])
        datum(ts)  == IF ts = NaT THEN 0 ELSE 10
        zahl(r)    == IF fehlt(r) THEN 0
                      ELSE ziffern(r.Fehltage) + (IF gleitkomma THEN 2 ELSE 0)
        kopf       == SumSeq([c \in 1..Len(RECORD_COLUMNS) |-> Len(RECORD_COLUMNS[c]) + 1])
                      + (IF fehltage_spalte THEN Len("Fehltage") + 1 ELSE 0)
        zeile(r)   == Len(write_text(r.Mitarbeiter_ID)) + 1
                      + Len(write_text(r.Name)) + 1
                      + datum(r.Startdatum) + 1
                      + datum(r.Enddatum) + 1
                      + Len(write_text(r.Grund)) + 1
                      + (IF fehltage_spalte THEN zahl(r) + 1 ELSE 0)
        zelle(i)   == IF fehltage_spalte THEN to_csv(d).rows[i]
                      ELSE [to_csv(d).rows[i] EXCEPT !.Fehltage = <<>>]
    IN  <<[kopf |-> TRUE, zelle |-> <<>>, bytes |-> kopf, ab |-> 0]>>
        \o [i \in 1..Len(d) |->
               [kopf |-> FALSE, zelle |-> <<zelle(i)>>,
                bytes |-> zeile(d[i]), ab |-> 0]]

\* the number of bytes of the lines
csv_bytes(zeilen) == SumSeq([k \in 1..Len(zeilen) |-> zeilen[k].bytes - zeilen[k].ab])

RECURSIVE ab_byte(_, _)
\* what the lines hold from byte n on: the lines before are gone, the line
\* byte n lies in has lost its front
ab_byte(zeilen, n) ==
    IF zeilen = <<>> \/ n = 0 THEN zeilen
    ELSE LET l == Head(zeilen).bytes - Head(zeilen).ab
         IN  IF l <= n THEN ab_byte(Tail(zeilen), n - l)
             ELSE <<[Head(zeilen) EXCEPT !.ab = Head(zeilen).ab + n]>> \o Tail(zeilen)

\* a file with these lines: rows are its complete record lines
datei_mit(zeilen) ==
    LET ganz == SelectSeq(zeilen, LAMBDA z : ~z.kopf /\ z.ab = 0)
    IN  [exists |-> TRUE,
         rows   |-> [k \in 1..Len(ganz) |-> ganz[k].zelle[1]],
         zeilen |-> zeilen]

\* to_csv opens the file for writing: the file exists and has no bytes
datei_geoeffnet == datei_mit(<<>>)

\* to_csv closes the file: the formatted text is written from the start of
\* the file, which another request may have written since this one opened
\* it; the bytes the file has beyond the text stay
datei_geschrieben(file, text) ==
    datei_mit(text \o ab_byte(file.zeilen, csv_bytes(text)))

\* the table request t called to_csv on, as it is now
frame_jetzt(t) == anfragen[anfragen[t].frame].lokal

\* line 245 of request t, the load of the global name: the table it refers
\* to now is the one to_csv is called on
SpeichernLaden(t) ==
    /\ anfragen[t].pc = "245"
    /\ anfragen' = [anfragen EXCEPT ![t].pc = "245c",
                                    ![t].frame = global_ref("app.py")]
    /\ UNCHANGED <<abwesenheiten, csv_datei, app_anzeige, export, main,
                   tabelle_columns, gen, aufrufe>>

\* line 245 of request t, to_csv sets up its formatter: the columns to
\* write are those the table has now
SpeichernSpalten(t) ==
    /\ anfragen[t].pc = "245c"
    /\ anfragen' = [anfragen EXCEPT ![t].pc = "245o",
                                    ![t].spalten = hat_fehltage(frame_jetzt(t))]
    /\ UNCHANGED <<abwesenheiten, csv_datei, app_anzeige, export, main,
                   tabelle_columns, gen, aufrufe>>

\* line 245 of request t, to_csv opens the file: what it held is gone
SpeichernOeffnen(t) ==
    /\ anfragen[t].pc = "245o"
    /\ csv_datei' = datei_geoeffnet
    /\ anfragen' = [anfragen EXCEPT ![t].pc = "245f"]
    /\ UNCHANGED <<abwesenheiten, app_anzeige, export, main,
                   tabelle_columns, gen, aufrufe>>

\* line 245 of request t, to_csv formats the rows of the table it was
\* called on, as that table is now, into the buffer of the open file
SpeichernFormatieren(t) ==
    /\ anfragen[t].pc = "245f"
    /\ anfragen' = [anfragen EXCEPT
                       ![t].pc = "245w",
                       ![t].text = csv_zeilen(frame_jetzt(t), anfragen[t].spalten)]
    /\ UNCHANGED <<abwesenheiten, csv_datei, app_anzeige, export, main,
                   tabelle_columns, gen, aufrufe>>

\* line 245 of request t, to_csv closes the file: the buffer is written;
\* to_csv returns and its formatter and buffer are gone
Speichern(t) ==
    /\ anfragen[t].pc = "245w"
    /\ csv_datei' = datei_geschrieben(csv_datei, anfragen[t].text)
    /\ anfragen' = [anfragen EXCEPT ![t].pc = "246", ![t].frame = 0,
                                    ![t].spalten = FALSE, ![t].text = <<>>]
    /\ UNCHANGED <<abwesenheiten, app_anzeige, export, main,
                   tabelle_columns, gen, aufrufe>>

\* line 246 of request t: the table the global name refers to now is
\* expanded into the local expanded_df
Expandieren(t) ==
    /\ anfragen[t].pc = "246"
    /\ anfragen' = [anfragen EXCEPT
                       ![t].pc = "247",
                       ![t].expanded_df = expand_abwesenheiten(abwesenheiten)]
    /\ UNCHANGED <<abwesenheiten, csv_datei, app_anzeige, export, main,
                   tabelle_columns, gen, aufrufe>>

\* line 247 of request t: the summary of the table the global name refers
\* to now; a KeyError ends the request without a response to show
Uebersicht(t) ==
    /\ anfragen[t].pc = "247"
    /\ IF krank_raises(abwesenheiten)
       THEN anfragen' = [anfragen EXCEPT
                           ![t].pc = "fertig",
                           ![t].antwort = [KeineAntwort EXCEPT
                                              !.rueckmeldung = "KeyError"]]
       ELSE anfragen' = [anfragen EXCEPT
                           ![t].pc = "248",
                           ![t].krank = create_krank_uebersicht(abwesenheiten)]
    /\ UNCHANGED <<abwesenheiten, csv_datei, app_anzeige, export, main,
                   tabelle_columns, gen, aufrufe>>

\* lines 248-257 of request t: the figures of the local expanded_df, and the
\* response with the table the global name refers to now
Antworten(t) ==
    /\ anfragen[t].pc = "248"
    /\ anfragen' = [anfragen EXCEPT
                       ![t].pc = "fertig",
                       ![t].antwort =
                           [rueckmeldung |-> MSG_OK,
                            tabelle_data |-> abwesenheiten,
                            krank_data   |-> anfragen[t].krank,
                            figuren      |-> generate_figures(anfragen[t].expanded_df)]]
    /\ UNCHANGED <<abwesenheiten, csv_datei, app_anzeige, export, main,
                   tabelle_columns, gen, aufrufe>>

PruefenSchritt     == \E t \in 1..Len(anfragen) : Pruefen(t)
IdWaehlenSchritt   == \E t \in 1..Len(anfragen) : IdWaehlen(t)
ConcatLesenSchritt == \E t \in 1..Len(anfragen) : ConcatLesen(t)
ZuweisenSchritt    == \E t \in 1..Len(anfragen) : Zuweisen(t)
FehltageEnddatumSchritt == \E t \in 1..Len(anfragen) : FehltageEnddatum(t)
FehltageSerieSchritt == \E t \in 1..Len(anfragen) : FehltageSerie(t)
FehltageSetzenSchritt == \E t \in 1..Len(anfragen) : FehltageSetzen(t)
SpeichernLadenSchritt == \E t \in 1..Len(anfragen) : SpeichernLaden(t)
SpeichernSpaltenSchritt == \E t \in 1..Len(anfragen) : SpeichernSpalten(t)
SpeichernOeffnenSchritt == \E t \in 1..Len(anfragen) : SpeichernOeffnen(t)
SpeichernFormatierenSchritt == \E t \in 1..Len(anfragen) : SpeichernFormatieren(t)
SpeichernSchritt   == \E t \in 1..Len(anfragen) : Speichern(t)
ExpandierenSchritt == \E t \in 1..Len(anfragen) : Expandieren(t)
UebersichtSchritt  == \E t \in 1..Len(anfragen) : Uebersicht(t)
AntwortenSchritt   == \E t \in 1..Len(anfragen) : Antworten(t)

\* a step of a thread of app.py in the handler
HandlerSchritt ==
    \/ PruefenSchritt \/ IdWaehlenSchritt \/ ConcatLesenSchritt
    \/ ZuweisenSchritt \/ FehltageEnddatumSchritt \/ FehltageSerieSchritt
    \/ FehltageSetzenSchritt \/ SpeichernLadenSchritt \/ SpeichernSpaltenSchritt
    \/ SpeichernOeffnenSchritt \/ SpeichernFormatierenSchritt \/ SpeichernSchritt
    \/ ExpandierenSchritt \/ UebersichtSchritt \/ AntwortenSchritt

----------------------------------------------------------------------------
(* The handler of main.py, lines 627-692, in the same steps.  The process   *)
(* of main.py has its own global table and its own file, the fields         *)
(* abwesenheiten and csv_datei of `main`; the fields rueckmeldung,          *)
(* tabelle_data, krank_data and figuren of `main` are what its start-up     *)
(* showed, and the response of a request is kept with the request.          *)

\* the variables of the app.py process
app_zustand == <<abwesenheiten, csv_datei, app_anzeige>>

\* a click reaches the server of main.py: a thread enters the handler at
\* line 627, whatever the other threads are doing
Ankunft_main ==
    /\ main.pc = "serving"
    /\ app_gestartet
    /\ Len(anfragen) < MaxAnfragen
    /\ \E k \in RaceKlicks :
          anfragen' = Append(anfragen, NeueAnfrage("main.py", k))
    /\ UNCHANGED <<app_zustand, export, main, tabelle_columns, gen, aufrufe>>

\* a click of the given clicks reaches the server of main.py when every
\* earlier request has returned
AnkunftEinzeln_main(klicks) ==
    /\ main.pc = "serving"
    /\ app_gestartet
    /\ Len(anfragen) < MaxAnfragen
    /\ alle_fertig
    /\ \E k \in klicks :
          anfragen' = Append(anfragen, NeueAnfrage("main.py", k))
    /\ UNCHANGED <<app_zustand, export, main, tabelle_columns, gen, aufrufe>>

\* main.py lines 630-652 of request t: the two checks; a rejecting return
\* reads the global table for the response
Pruefen_main(t) ==
    /\ anfragen[t].pc = "630"
    /\ LET k == anfragen[t].klick
       IN  IF feld_fehlt_main(k.name, k.start_datum, k.end_datum, k.grund)
           THEN anfragen' = [anfragen EXCEPT ![t].pc = "fertig",
                                 ![t].antwort = [rueckmeldung |-> MSG_FELDER,
                                                 tabelle_data |-> main.abwesenheiten,
                                                 krank_data   |-> <<>>,
                                                 figuren      |-> NoFigures]]
           ELSE IF to_datetime(k.start_datum) > to_datetime(k.end_datum)
           THEN anfragen' = [anfragen EXCEPT ![t].pc = "fertig",
                                 ![t].antwort = [rueckmeldung |-> MSG_DATUM,
                                                 tabelle_data |-> main.abwesenheiten,
                                                 krank_data   |-> <<>>,
                                                 figuren      |-> NoFigures]]
           ELSE anfragen' = [anfragen EXCEPT ![t].pc = "657"]
    /\ UNCHANGED <<app_zustand, export, main, tabelle_columns, gen, aufrufe>>

\* main.py lines 657-661 of request t: the global table is read for the id
IdWaehlen_main(t) ==
    /\ anfragen[t].pc = "657"
    /\ \E mitarbeiter_id \in mitarbeiter_ids(main.abwesenheiten, anfragen[t].klick.name) :
          anfragen' = [anfragen EXCEPT ![t].pc = "671",
                                       ![t].mitarbeiter_id = mitarbeiter_id]
    /\ UNCHANGED <<app_zustand, export, main, tabelle_columns, gen, aufrufe>>

\* main.py lines 654-655 and 663-671 of request t, the right-hand side: the
\* global table is read and pd.concat builds a new table from it and the
\* new record
ConcatLesen_main(t) ==
    /\ anfragen[t].pc = "671"
    /\ LET k == anfragen[t].klick
       IN  anfragen' = [anfragen EXCEPT
                           ![t].pc = "671=",
                           ![t].lokal = concat_neu(main.abwesenheiten,
                                                   anfragen[t].mitarbeiter_id,
                                                   k.name, to_datetime(k.start_datum),
                                                   to_datetime(k.end_datum),
                                                   stored_grund_main(k.grund, k.anderer_grund))]
    /\ UNCHANGED <<app_zustand, export, main, tabelle_columns, gen, aufrufe>>

\* main.py line 671 of request t, the assignment: the global name refers to
\* the new table, whose new record has no Fehltage yet
Zuweisen_main(t) ==
    /\ anfragen[t].pc = "671="
    /\ main' = [main EXCEPT !.abwesenheiten = anfragen[t].lokal]
    /\ anfragen' = gebunden_an(t, "672")
    /\ UNCHANGED <<app_zustand, export, tabelle_columns, gen, aufrufe>>

\* main.py line 672 of request t, the first load of the global name: the
\* column Enddatum of the table it refers to now
FehltageEnddatum_main(t) ==
    /\ anfragen[t].pc = "672"
    /\ anfragen' = [anfragen EXCEPT
                       ![t].pc = "672b",
                       ![t].enddatum = [i \in 1..Len(main.abwesenheiten) |->
                                           main.abwesenheiten[i].Enddatum]]
    /\ UNCHANGED <<app_zustand, export, main, tabelle_columns, gen, aufrufe>>

\* main.py line 672 of request t, the second load: the column Startdatum of
\* the table the name refers to now, and the Series of the day counts
FehltageSerie_main(t) ==
    /\ anfragen[t].pc = "672b"
    /\ anfragen' = [anfragen EXCEPT
                       ![t].pc = "672c",
                       ![t].serie = fehltage_serie(anfragen[t].enddatum,
                                        [i \in 1..Len(main.abwesenheiten) |->
                                            main.abwesenheiten[i].Startdatum])]
    /\ UNCHANGED <<app_zustand, export, main, tabelle_columns, gen, aufrufe>>

\* main.py line 672 of request t, the third load and the store: the Series
\* becomes the column Fehltage of the table the name refers to now, in place
FehltageSetzen_main(t) ==
    /\ anfragen[t].pc = "672c"
    /\ LET neu == setitem_fehltage(main.abwesenheiten, anfragen[t].serie)
       IN  /\ main' = [main EXCEPT !.abwesenheiten = neu]
           /\ anfragen' = gespeichert_in(t, neu, "675")
    /\ UNCHANGED <<app_zustand, export, tabelle_columns, gen, aufrufe>>

\* main.py line 675 of request t, the load of the global name: the table it
\* refers to now is the one to_csv is called on
SpeichernLaden_main(t) ==
    /\ anfragen[t].pc = "675"
    /\ anfragen' = [anfragen EXCEPT ![t].pc = "675c",
                                    ![t].frame = global_ref("main.py")]
    /\ UNCHANGED <<app_zustand, export, main, tabelle_columns, gen, aufrufe>>

\* main.py line 675 of request t, to_csv sets up its formatter: the columns
\* to write are those the table has now
SpeichernSpalten_main(t) ==
    /\ anfragen[t].pc = "675c"
    /\ anfragen' = [anfragen EXCEPT ![t].pc = "675o",
                                    ![t].spalten = hat_fehltage(frame_jetzt(t))]
    /\ UNCHANGED <<app_zustand, export, main, tabelle_columns, gen, aufrufe>>

\* main.py line 675 of request t, to_csv opens the file: what it held is
\* gone
SpeichernOeffnen_main(t) ==
    /\ anfragen[t].pc = "675o"
    /\ main' = [main EXCEPT !.csv_datei = datei_geoeffnet]
    /\ anfragen' = [anfragen EXCEPT ![t].pc = "675f"]
    /\ UNCHANGED <<app_zustand, export, tabelle_columns, gen, aufrufe>>

\* main.py line 675 of request t, to_csv formats the rows of the table it
\* was called on, as that table is now, into the buffer of the open file
SpeichernFormatieren_main(t) ==
    /\ anfragen[t].pc = "675f"
    /\ anfragen' = [anfragen EXCEPT
                       ![t].pc = "675w",
                       ![t].text = csv_zeilen(frame_jetzt(t), anfragen[t].spalten)]
    /\ UNCHANGED <<app_zustand, export, main, tabelle_columns, gen, aufrufe>>

\* main.py line 675 of request t, to_csv closes the file: the buffer is
\* written; to_csv returns and its formatter and buffer are gone
Speichern_main(t) ==
    /\ anfragen[t].pc = "675w"
    /\ main' = [main EXCEPT
                   !.csv_datei = datei_geschrieben(main.csv_datei, anfragen[t].text)]
    /\ anfragen' = [anfragen EXCEPT ![t].pc = "678", ![t].frame = 0,
                                    ![t].spalten = FALSE, ![t].text = <<>>]
    /\ UNCHANGED <<app_zustand, export, tabelle_columns, gen, aufrufe>>

\* main.py line 678 of request t: the summary of the table the global name
\* refers to now; a KeyError ends the request without a response to show
Uebersicht_main(t) ==
    /\ anfragen[t].pc = "678"
    /\ IF krank_raises(main.abwesenheiten)
       THEN anfragen' = [anfragen EXCEPT
                           ![t].pc = "fertig",
                           ![t].antwort = [KeineAntwort EXCEPT
                                              !.rueckmeldung = "KeyError"]]
       ELSE anfragen' = [anfragen EXCEPT
                           ![t].pc = "681",
                           ![t].krank = create_krank_uebersicht_df(main.abwesenheiten)]
    /\ UNCHANGED <<app_zustand, export, main, tabelle_columns, gen, aufrufe>>

\* main.py line 681 of request t: the table the global name refers to now
\* is expanded into the local expanded_df
Expandieren_main(t) ==
    /\ anfragen[t].pc = "681"
    /\ anfragen' = [anfragen EXCEPT
                       ![t].pc = "682",
                       ![t].expanded_df = expand_abwesenheiten_main(main.abwesenheiten)]
    /\ UNCHANGED <<app_zustand, export, main, tabelle_columns, gen, aufrufe>>

\* main.py lines 682-692 of request t: the figures of the local
\* expanded_df, and the response with the table the global name refers to
\* now
Antworten_main(t) ==
    /\ anfragen[t].pc = "682"
    /\ anfragen' = [anfragen EXCEPT
                       ![t].pc = "fertig",
                       ![t].antwort =
                           [rueckmeldung |-> MSG_OK,
                            tabelle_data |-> main.abwesenheiten,
                            krank_data   |-> anfragen[t].krank,
                            figuren      |-> generate_figures_from_expanded(
                                                 anfragen[t].expanded_df)]]
    /\ UNCHANGED <<app_zustand, export, main, tabelle_columns, gen, aufrufe>>

PruefenSchritt_main     == \E t \in 1..Len(anfragen) : Pruefen_main(t)
IdWaehlenSchritt_main   == \E t \in 1..Len(anfragen) : IdWaehlen_main(t)
ConcatLesenSchritt_main == \E t \in 1..Len(anfragen) : ConcatLesen_main(t)
ZuweisenSchritt_main    == \E t \in 1..Len(anfragen) : Zuweisen_main(t)
FehltageEnddatumSchritt_main == \E t \in 1..Len(anfragen) : FehltageEnddatum_main(t)
FehltageSerieSchritt_main == \E t \in 1..Len(anfragen) : FehltageSerie_main(t)
FehltageSetzenSchritt_main == \E t \in 1..Len(anfragen) : FehltageSetzen_main(t)
SpeichernLadenSchritt_main == \E t \in 1..Len(anfragen) : SpeichernLaden_main(t)
SpeichernSpaltenSchritt_main == \E t \in 1..Len(anfragen) : SpeichernSpalten_main(t)
SpeichernOeffnenSchritt_main == \E t \in 1..Len(anfragen) : SpeichernOeffnen_main(t)
SpeichernFormatierenSchritt_main == \E t \in 1..Len(anfragen) : SpeichernFormatieren_main(t)
SpeichernSchritt_main   == \E t \in 1..Len(anfragen) : Speichern_main(t)
UebersichtSchritt_main  == \E t \in 1..Len(anfragen) : Uebersicht_main(t)
ExpandierenSchritt_main == \E t \in 1..Len(anfragen) : Expandieren_main(t)
AntwortenSchritt_main   == \E t \in 1..Len(anfragen) : Antworten_main(t)

\* a step of a thread of main.py in the handler
HandlerSchritt_main ==
    \/ PruefenSchritt_main \/ IdWaehlenSchritt_main \/ ConcatLesenSchritt_main
    \/ ZuweisenSchritt_main \/ FehltageEnddatumSchritt_main
    \/ FehltageSerieSchritt_main \/ FehltageSetzenSchritt_main
    \/ SpeichernLadenSchritt_main \/ SpeichernSpaltenSchritt_main
    \/ SpeichernOeffnenSchritt_main \/ SpeichernFormatierenSchritt_main
    \/ SpeichernSchritt_main \/ UebersichtSchritt_main
    \/ ExpandierenSchritt_main \/ AntwortenSchritt_main

\* main.py before its module-level code has run, on the given file
MainVorStart(file) ==
    [pc            |-> "import",
     csv_datei     |-> file,
     abwesenheiten |-> <<>>,
     expanded_df   |-> <<>>,
     rueckmeldung  |-> PyNone,
     tabelle_data  |-> <<>>,
     krank_data    |-> <<>>,
     figuren       |-> NoFigures]

\* both servers are about to start, each on its copy of one file
InitRace ==
    /\ csv_datei \in RaceFiles
    /\ abwesenheiten = <<>>
    /\ expanded_df = <<>>
    /\ rueckmeldung = PyNone
    /\ tabelle_data = <<>>
    /\ krank_data = <<>>
    /\ figuren = NoFigures
    /\ letzter_klick = "kein"
    /\ pc = "import"
    /\ export = NoExport
    /\ main = MainVorStart(csv_datei)
    /\ anfragen = <<>>
    /\ tabelle_columns = <<>>
    /\ gen = KeinLauf
    /\ aufrufe = KeineAufrufe

NextRace ==
    LoadData \/ ExpandInitial \/ FiguresInitial \/ KrankInitial \/ Layout
    \/ MainStart
    \/ Ankunft \/ HandlerSchritt
    \/ Ankunft_main \/ HandlerSchritt_main

SpecRace == InitRace /\ [][NextRace]_vars

----------------------------------------------------------------------------
(* The employee ids.  One user, who waits for each response before the next *)
(* click, adds records on tables that hold a name more than once: the       *)
(* handlers run in the steps above, one request at a time.                  *)

\* the files found at start-up: none; two records of one name that carry
\* different ids; two employees with an id each
IdFiles ==
    {NoFile,
     [exists |-> TRUE,
      rows   |-> <<[Mitarbeiter_ID |-> "EMP-9f8e7d6c", Name |-> "Anna",
                    Startdatum |-> <<2025, 1, 30>>, Enddatum |-> <<2025, 1, 31>>,
                    Grund |-> "Krank", Fehltage |-> <<2>>],
                   [Mitarbeiter_ID |-> "EMP-1a2b3c4d", Name |-> "Anna",
                    Startdatum |-> <<2025, 2, 3>>, Enddatum |-> <<2025, 2, 3>>,
                    Grund |-> "Urlaub", Fehltage |-> <<1>>]>>],
     [exists |-> TRUE,
      rows   |-> <<[Mitarbeiter_ID |-> "EMP-1a2b3c4d", Name |-> "Ben",
                    Startdatum |-> <<2025, 1, 30>>, Enddatum |-> <<2025, 1, 31>>,
                    Grund |-> "Krank", Fehltage |-> <<2>>],
                   [Mitarbeiter_ID |-> "EMP-9f8e7d6c", Name |-> "Anna",
                    Startdatum |-> <<2025, 2, 3>>, Enddatum |-> <<2025, 2, 3>>,
                    Grund |-> "Urlaub", Fehltage |-> <<1>>]>>]}

\* the State values of the clicks: a name the files hold, a name they do
\* not hold, and a form without a name
IdKlicks ==
    {[name |-> "Anna", start_datum |-> <<2025, 2, 5>>, end_datum |-> <<2025, 2, 6>>,
      grund |-> "Krank", anderer_grund |-> PyNone],
     [name |-> "Cem", start_datum |-> <<2025, 2, 5>>, end_datum |-> <<2025, 2, 5>>,
      grund |-> "Urlaub", anderer_grund |-> PyNone],
     [name |-> PyNone, start_datum |-> <<2025, 2, 5>>, end_datum |-> <<2025, 2, 6>>,
      grund |-> "Krank", anderer_grund |-> PyNone]}

AnkunftId      == AnkunftEinzeln(IdKlicks)
AnkunftId_main == AnkunftEinzeln_main(IdKlicks)

\* both servers are about to start, each on its copy of one file
InitId ==
    /\ csv_datei \in IdFiles
    /\ abwesenheiten = <<>>
    /\ expanded_df = <<>>
    /\ rueckmeldung = PyNone
    /\ tabelle_data = <<>>
    /\ krank_data = <<>>
    /\ figuren = NoFigures
    /\ letzter_klick = "kein"
    /\ pc = "import"
    /\ export = NoExport
    /\ main = MainVorStart(csv_datei)
    /\ anfragen = <<>>
    /\ tabelle_columns = <<>>
    /\ gen = KeinLauf
    /\ aufrufe = KeineAufrufe

NextId ==
    LoadData \/ ExpandInitial \/ FiguresInitial \/ KrankInitial \/ Layout
    \/ MainStart
    \/ AnkunftId \/ HandlerSchritt
    \/ AnkunftId_main \/ HandlerSchritt_main

SpecId == InitId /\ [][NextId]_vars

----------------------------------------------------------------------------
(* Adds and downloads on one running app.py.  The add handler runs in the   *)
(* steps above, one request at a time, and a download can be clicked        *)
(* between any two of its steps, so also while the new record is in the     *)
(* table without its Fehltage (between line 243 and line 244).  A download  *)
(* is one step: it loads the global name and filter_date_range copies the   *)
(* rows it selects from that table; with one add at a time a table is       *)
(* changed in place only while the global name refers to it, so what a      *)
(* download copies is the table the name refers to at some moment of the    *)
(* download.  Adds that overlap each other are explored in SpecRace.        *)

\* the files found at start-up: none, and one record inside 10-15 January
ExportAddFiles ==
    {NoFile,
     [exists |-> TRUE,
      rows   |-> <<[Mitarbeiter_ID |-> "EMP-9f8e7d6c", Name |-> "Ben",
                    Startdatum |-> <<2025, 1, 11>>, Enddatum |-> <<2025, 1, 12>>,
                    Grund |-> "Krank", Fehltage |-> <<2>>]>>]}

\* the State values of the add clicks.  The dates lie around the export
\* period 10-15 January: one record inside it, one that ends after it; and
\* a form without a name
ExportKlicks ==
    {[name |-> "Anna", start_datum |-> <<2025, 1, 12>>, end_datum |-> <<2025, 1, 14>>,
      grund |-> "Krank", anderer_grund |-> PyNone],
     [name |-> "Anna", start_datum |-> <<2025, 1, 12>>, end_datum |-> <<2025, 1, 18>>,
      grund |-> "Krank", anderer_grund |-> PyNone],
     [name |-> PyNone, start_datum |-> <<2025, 1, 12>>, end_datum |-> <<2025, 1, 14>>,
      grund |-> "Krank", anderer_grund |-> PyNone]}

AnkunftExport == AnkunftEinzeln(ExportKlicks)

InitAddExport ==
    /\ csv_datei \in ExportAddFiles
    /\ abwesenheiten = <<>>
    /\ expanded_df = <<>>
    /\ rueckmeldung = PyNone
    /\ tabelle_data = <<>>
    /\ krank_data = <<>>
    /\ figuren = NoFigures
    /\ letzter_klick = "kein"
    /\ pc = "import"
    /\ export = NoExport
    /\ main = MainNichtGestartet
    /\ anfragen = <<>>
    /\ tabelle_columns = <<>>
    /\ gen = KeinLauf
    /\ aufrufe = KeineAufrufe

NextAddExport ==
    LoadData \/ ExpandInitial \/ FiguresInitial \/ KrankInitial \/ Layout
    \/ AnkunftExport \/ HandlerSchritt
    \/ DownloadCsvClick \/ DownloadExcelClick

SpecAddExport == InitAddExport /\ [][NextAddExport]_vars

----------------------------------------------------------------------------
(* The transform functions called again.  The start-up has called           *)
(* expand_abwesenheiten, generate_figures and create_krank_uebersicht once  *)
(* (lines 21-28) and keeps what they returned; on the running application   *)
(* each function is called again on the same table, as the handlers do,     *)
(* and `aufrufe` keeps what every call returned.  A call computes its       *)
(* result from its arguments and assigns to new frames only (data_utils.py  *)
(* lines 19-82, figures.py lines 7-125): it leaves the table, the file and  *)
(* every other variable as they are.                                        *)

\* most calls of one function after the start-up
MaxAufrufe == 2

\* the files found at start-up: none; one record; two records of which the
\* period 10-15 January holds one and the period 10-20 January both; three
\* records, two of one employee and one without a reason, none of them
\* inside 10-15 January
PureFiles ==
    {NoFile,
     [exists |-> TRUE,
      rows   |-> <<[Mitarbeiter_ID |-> "EMP-1a2b3c4d", Name |-> "Anna",
                    Startdatum |-> <<2025, 1, 11>>, Enddatum |-> <<2025, 1, 12>>,
                    Grund |-> "Krank", Fehltage |-> <<2>>]>>],
     [exists |-> TRUE,
      rows   |-> <<[Mitarbeiter_ID |-> "EMP-1a2b3c4d", Name |-> "Anna",
                    Startdatum |-> <<2025, 1, 11>>, Enddatum |-> <<2025, 1, 12>>,
                    Grund |-> "Krank", Fehltage |-> <<2>>],
                   [Mitarbeiter_ID |-> "EMP-9f8e7d6c", Name |-> "Ben",
                    Startdatum |-> <<2025, 1, 12>>, Enddatum |-> <<2025, 1, 18>>,
                    Grund |-> "Urlaub", Fehltage |-> <<7>>]>>],
     [exists |-> TRUE,
      rows   |-> <<[Mitarbeiter_ID |-> "EMP-9f8e7d6c", Name |-> "Ben",
                    Startdatum |-> <<2025, 1, 8>>, Enddatum |-> <<2025, 1, 12>>,
                    Grund |-> "Krank", Fehltage |-> <<5>>],
                   [Mitarbeiter_ID |-> "EMP-9f8e7d6c", Name |-> "Ben",
                    Startdatum |-> <<2025, 1, 25>>, Enddatum |-> <<2025, 1, 26>>,
                    Grund |-> "Krank", Fehltage |-> <<2>>],
                   [Mitarbeiter_ID |-> "EMP-1a2b3c4d", Name |-> "Anna",
                    Startdatum |-> <<2025, 1, 31>>, Enddatum |-> <<2025, 2, 1>>,
                    Grund |-> "", Fehltage |-> <<>>]>>]}

\* the periods the filter is called with
PureStartSamples == {<<>>, <<2025, 1, 10>>}
PureEndSamples   == {<<2025, 1, 15>>, <<2025, 1, 20>>}

\* data_utils.py lines 19-40 called on the global table
aufruf_expand_abwesenheiten ==
    /\ pc = "serving"
    /\ Len(aufrufe.expand_abwesenheiten) < MaxAufrufe
    /\ aufrufe' = [aufrufe EXCEPT
                      !.expand_abwesenheiten =
                          Append(@, expand_abwesenheiten(abwesenheiten))]
    /\ UNCHANGED <<abwesenheiten, csv_datei, app_anzeige, export, main, anfragen,
                   tabelle_columns, gen>>

\* data_utils.py lines 43-63 called on the global table
aufruf_create_krank_uebersicht ==
    /\ pc = "serving"
    /\ Len(aufrufe.create_krank_uebersicht) < MaxAufrufe
    /\ aufrufe' = [aufrufe EXCEPT
                      !.create_krank_uebersicht =
                          Append(@, create_krank_uebersicht(abwesenheiten))]
    /\ UNCHANGED <<abwesenheiten, csv_datei, app_anzeige, export, main, anfragen,
                   tabelle_columns, gen>>

\* figures.py lines 7-48 called on the expanded table of the start-up
aufruf_generate_figures ==
    /\ pc = "serving"
    /\ Len(aufrufe.generate_figures) < MaxAufrufe
    /\ aufrufe' = [aufrufe EXCEPT
                      !.generate_figures = Append(@, generate_figures(expanded_df))]
    /\ UNCHANGED <<abwesenheiten, csv_datei, app_anzeige, export, main, anfragen,
                   tabelle_columns, gen>>

\* a filter that drops the rows outside the period from the table passed to
\* it (df.drop(..., inplace=True)): not what data_utils.py line 77 does; C12
\* tells the two apart
aufruf_filter_date_range_inplace(start_date, end_date) ==
    /\ pc = "serving"
    /\ LET bisher   == aufrufe.filter_date_range
           ergebnis == filter_date_range(abwesenheiten, start_date, end_date)
       IN  /\ Len(bisher) < MaxAufrufe
           /\ bisher # <<>> =>
                 /\ start_date = bisher[1].start_date
                 /\ end_date = bisher[1].end_date
           /\ aufrufe' = [aufrufe EXCEPT
                             !.filter_date_range =
                                 Append(@, [start_date |-> start_date,
                                            end_date   |-> end_date,
                                            ergebnis   |-> ergebnis])]
           /\ abwesenheiten' = IF ergebnis.fehler = "" THEN ergebnis.df
                               ELSE abwesenheiten
    /\ UNCHANGED <<csv_datei, app_anzeige, export, main, anfragen,
                   tabelle_columns, gen>>

\* data_utils.py lines 66-82 called on the global table with a period; a
\* later call repeats the period of the first
aufruf_filter_date_range(start_date, end_date) ==
    /\ pc = "serving"
    /\ LET bisher   == aufrufe.filter_date_range
           ergebnis == filter_date_range(abwesenheiten, start_date, end_date)
       IN  /\ Len(bisher) < MaxAufrufe
           /\ bisher # <<>> =>
                 /\ start_date = bisher[1].start_date
                 /\ end_date = bisher[1].end_date
           /\ aufrufe' = [aufrufe EXCEPT
                             !.filter_date_range =
                                 Append(@, [start_date |-> start_date,
                                            end_date   |-> end_date,
                                            ergebnis   |-> ergebnis])]
    /\ UNCHANGED <<abwesenheiten, csv_datei, app_anzeige, export, main, anfragen,
                   tabelle_columns, gen>>

AufrufFilter ==
    \E start_date \in PureStartSamples, end_date \in PureEndSamples :
        aufruf_filter_date_range(start_date, end_date)

NextPure ==
    LoadData \/ ExpandInitial \/ FiguresInitial \/ KrankInitial \/ Layout
    \/ aufruf_expand_abwesenheiten \/ aufruf_create_krank_uebersicht
    \/ aufruf_generate_figures \/ AufrufFilter

InitPure ==
    /\ csv_datei \in PureFiles
    /\ abwesenheiten = <<>>
    /\ expanded_df = <<>>
    /\ rueckmeldung = PyNone
    /\ tabelle_data = <<>>
    /\ krank_data = <<>>
    /\ figuren = NoFigures
    /\ letzter_klick = "kein"
    /\ pc = "import"
    /\ export = NoExport
    /\ main = MainNichtGestartet
    /\ anfragen = <<>>
    /\ tabelle_columns = <<>>
    /\ gen = KeinLauf
    /\ aufrufe = KeineAufrufe

SpecPure == InitPure /\ [][NextPure]_vars

----------------------------------------------------------------------------
(* create_employee_data.py: the script that writes abwesenheiten.csv.       *)
(* `gen` holds the script's variables; gen.pc is the step ("Schritt") the   *)
(* script is at, gen.emp and gen.j the positions of its two nested loops.   *)
(* Employees are numbered 1..num_employees; dates are day numbers until     *)
(* strftime turns them into the text of the entry.                          *)

\* line 7: num_employees (50 in the script)
num_employees == 2
\* line 8: total_entries (200 in the script); as there, not less than three
\* per employee
total_entries == 8
\* the largest count np.random.normal(...).astype(int) draws for one employee
MaxZusatz == 2

\* lines 9-10
start_date == DaysFromCivil(2023, 1, 1)
end_date == DaysFromCivil(2023, 12, 31)

\* line 13: f"E{str(i).zfill(3)}", for i up to 9
employee_ids == [i \in 1..num_employees |-> "E00" \o ToString(i)]

\* lines 16-17
absence_reasons == <<"Urlaub", "Krankheit", "unentschuldigtes Fehlen">>
absence_types == <<"geplante Abwesenheit", "unerwartete Abwesenheit">>

\* line 20: the values of random.randint(28, 33)
UrlaubTage == 28..33
\* line 25: the values of random.randint(1, 3)
NumPeriods == 1..3

\* a draw of random.randint(lo, hi): its smallest value, a middle one or its
\* largest, as `wahl` says
randint(lo, hi, wahl) ==
    CASE wahl = "min" -> lo
      [] wahl = "mitte" -> (lo + hi) \div 2
      [] wahl = "max" -> hi

\* datetime.strftime('%Y-%m-%d'): year, month and day of the text
strftime(ts) == CivilFromDays(ts)

\* the remainder given to the first period alone: not what lines 27-28 do;
\* C29 tells the two apart
tage_pro_period_rest_vorne(urlaub_tage, num_periods) ==
    [i \in 1..num_periods |->
        (urlaub_tage \div num_periods)
        + (IF i = 1 THEN urlaub_tage % num_periods ELSE 0)]

\* lines 26-28: urlaub_tage // num_periods days for every period, and one
\* more for each of the first urlaub_tage % num_periods periods
tage_pro_period(urlaub_tage, num_periods) ==
    [i \in 1..num_periods |->
        (urlaub_tage \div num_periods)
        + (IF i <= urlaub_tage % num_periods THEN 1 ELSE 0)]

\* lines 37-50: the vacation entry of `tage` days that starts random_days
\* after start_date
urlaub_eintrag(emp_id, tage, random_days) ==
    LET absence_start == start_date + random_days
        absence_end   == absence_start + (tage - 1)
    IN  [employee_id    |-> emp_id,
         absence_start  |-> strftime(absence_start),
         absence_end    |-> strftime(IF absence_end > end_date
                                     THEN end_date ELSE absence_end),
         absence_reason |-> absence_reasons[1],
         absence_type   |-> absence_types[1]]

\* line 97: max(1, int(x)), for the integer part z of the normal draw x
duration_of(z) == IF z > 1 THEN z ELSE 1

\* an entry that keeps the end it computed: not what lines 99-100 do; C28
\* tells the two apart
zusatz_eintrag_ungekuerzt(emp_id, random_days, duration, absence_reason) ==
    LET absence_start == start_date + random_days
        absence_end   == absence_start + duration
    IN  [employee_id    |-> emp_id,
         absence_start  |-> strftime(absence_start),
         absence_end    |-> strftime(absence_end),
         absence_reason |-> absence_reason,
         absence_type   |-> absence_types[2]]

\* lines 94-112: the additional entry that starts random_days after
\* start_date and ends `duration` days later, at the latest on end_date
zusatz_eintrag(emp_id, random_days, duration, absence_reason) ==
    LET absence_start == start_date + random_days
        absence_end   == absence_start + duration
    IN  [employee_id    |-> emp_id,
         absence_start  |-> strftime(absence_start),
         absence_end    |-> strftime(IF absence_end > end_date
                                     THEN end_date ELSE absence_end),
         absence_reason |-> absence_reason,
         absence_type   |-> absence_types[2]]

\* the wanted total taken for what remains: not what lines 54-60 do; C26
\* tells the two apart
remaining_entries_ohne_urlaub(data) == total_entries

\* lines 54-60: what the vacation entries leave of total_entries, not less
\* than 0
remaining_entries(data) ==
    IF total_entries - Len(data) < 0 THEN 0 ELSE total_entries - Len(data)

\* line 71: np.clip(v, 0, None)
clip0(v) == [i \in 1..Len(v) |-> IF v[i] < 0 THEN 0 ELSE v[i]]

\* one turn of the for loop that takes a count away without looking at it:
\* not what line 84 does; C27 tells the two apart
korrektur_schritt_ohne_pruefung(v, d, i) ==
    IF d > 0
    THEN <<[v EXCEPT ![i] = @ + 1], d - 1>>
    ELSE <<[v EXCEPT ![i] = @ - 1], d + 1>>

\* lines 81-86: one turn of the for loop, for employee i and difference
\* d # 0: the counts and the difference after it
korrektur_schritt(v, d, i) ==
    IF d > 0
    THEN <<[v EXCEPT ![i] = @ + 1], d - 1>>
    ELSE IF v[i] > 0
         THEN <<[v EXCEPT ![i] = @ - 1], d + 1>>
         ELSE <<v, d>>

RECURSIVE korrektur_pass(_, _, _)
\* lines 78-86: the for loop from employee i on; it breaks when the
\* difference is 0
korrektur_pass(v, d, i) ==
    IF i > num_employees \/ d = 0
    THEN <<v, d>>
    ELSE LET n == korrektur_schritt(v, d, i)
         IN  korrektur_pass(n[1], n[2], i + 1)

\* lines 89-91: the first employee from e on whose count is not 0;
\* num_employees + 1 when there is none
naechster_mit_zusatz(v, e) ==
    SetMin({k \in e..(num_employees + 1) : k = num_employees + 1 \/ v[k] > 0})

\* the orders random.shuffle can give a list of n entries: every one-to-one
\* mapping of the positions; order[i] is the old position of the entry that
\* comes to position i
ist_reihenfolge(order, n) ==
    /\ DOMAIN order = 1..n
    /\ \A i \in 1..n : order[i] \in 1..n
    /\ \A i, k \in 1..n : order[i] = order[k] => i = k

\* line 115: random.shuffle(data), the draws having given this order
shuffle(data, order) == [i \in 1..Len(data) |-> data[order[i]]]

\* orders random.shuffle gives lists of 8 and of 9 entries after
\* random.seed(0), random.seed(1) and random.seed(2) (CPython 3.11)
shuffle_seeds(n) ==
    IF n = 8 THEN {<<5, 2, 6, 3, 1, 4, 8, 7>>, <<4, 7, 2, 6, 8, 1, 5, 3>>,
                   <<6, 4, 5, 2, 3, 7, 8, 1>>}
    ELSE IF n = 9 THEN {<<8, 6, 2, 4, 5, 3, 1, 9, 7>>, <<6, 7, 8, 5, 4, 1, 9, 2, 3>>,
                        <<4, 7, 5, 6, 8, 3, 9, 2, 1>>}
    ELSE {}

\* the orders followed here: the list stays as it is, is turned round, is
\* moved on by one place, or gets an order of shuffle_seeds
shuffle_proben(n) ==
    {[i \in 1..n |-> i], [i \in 1..n |-> n + 1 - i], [i \in 1..n |-> (i % n) + 1]}
    \cup shuffle_seeds(n)

\* the variables of app.py, web_app.py and main.py
ohne_gen == <<abwesenheiten, csv_datei, expanded_df, rueckmeldung,
              tabelle_data, krank_data, figuren, letzter_klick, pc, export,
              main, anfragen, tabelle_columns, aufrufe>>

\* the app has not been started and there is no file yet
AppNichtGestartet ==
    /\ csv_datei = NoFile
    /\ abwesenheiten = <<>>
    /\ expanded_df = <<>>
    /\ rueckmeldung = PyNone
    /\ tabelle_data = <<>>
    /\ krank_data = <<>>
    /\ figuren = NoFigures
    /\ letzter_klick = "kein"
    /\ pc = "import"
    /\ export = NoExport
    /\ main = MainNichtGestartet
    /\ anfragen = <<>>
    /\ tabelle_columns = <<>>
    /\ aufrufe = KeineAufrufe

\* the script after line 17
GenStart == [KeinLauf EXCEPT !.pc = "schritt1"]

\* line 20: every employee is given a number of vacation days from `proben`
UrlaubTageZuweisen(proben) ==
    /\ gen.pc = "schritt1"
    /\ \E ut \in [1..num_employees -> proben] :
        gen' = [gen EXCEPT !.urlaub_tage_pro_mitarbeiter = ut,
                           !.pc = "schritt2"]
    /\ UNCHANGED ohne_gen

\* lines 23-29: every employee's days are split into 1 to 3 periods
UrlaubAufteilen ==
    /\ gen.pc = "schritt2"
    /\ \E np \in [1..num_employees -> NumPeriods] :
        gen' = [gen EXCEPT
                  !.urlaub_entries_per_mitarbeiter =
                      [e \in 1..num_employees |->
                          tage_pro_period(gen.urlaub_tage_pro_mitarbeiter[e], np[e])],
                  !.data = <<>>,
                  !.emp = 1,
                  !.j = 1,
                  !.pc = "schritt3"]
    /\ UNCHANGED ohne_gen

\* lines 34-50: one turn of the inner loop: the entry of period j of
\* employee emp, its start drawn as `wahlen` allow; after the last period of
\* the last employee the script goes on to line 54
UrlaubEintrag(wahlen) ==
    /\ gen.pc = "schritt3"
    /\ \E wahl \in wahlen :
        LET tage_liste  == gen.urlaub_entries_per_mitarbeiter[gen.emp]
            tage        == tage_liste[gen.j]
            random_days == randint(0, (end_date - start_date) - tage, wahl)
            letzte      == gen.j = Len(tage_liste)
        IN  gen' = [gen EXCEPT
                      !.tage = tage,
                      !.random_days = random_days,
                      !.data = Append(gen.data,
                                      urlaub_eintrag(employee_ids[gen.emp], tage,
                                                     random_days)),
                      !.j = IF letzte THEN 1 ELSE gen.j + 1,
                      !.emp = IF letzte THEN gen.emp + 1 ELSE gen.emp,
                      !.pc = IF letzte /\ gen.emp = num_employees
                             THEN "schritt4" ELSE "schritt3"]
    /\ UNCHANGED ohne_gen

\* lines 54-75: what remains of total_entries, the counts drawn for the
\* employees (the integer parts of the normal draws, then clipped) and how
\* far their sum is from what remains
RestVerteilen ==
    /\ gen.pc = "schritt4"
    /\ \E gezogen \in [1..num_employees -> (0 - 1)..MaxZusatz] :
        LET rest == remaining_entries(gen.data)
            v    == clip0(gezogen)
        IN  gen' = [gen EXCEPT
                      !.remaining_entries = rest,
                      !.additional_absences_per_employee = v,
                      !.difference = rest - SumSeq(v),
                      !.pc = "schleife"]
    /\ UNCHANGED ohne_gen

\* lines 77-86: one turn of the while loop, that is one for loop
Korrektur ==
    /\ gen.pc = "schleife"
    /\ gen.difference # 0
    /\ LET n == korrektur_pass(gen.additional_absences_per_employee,
                               gen.difference, 1)
       IN  gen' = [gen EXCEPT !.additional_absences_per_employee = n[1],
                              !.difference = n[2]]
    /\ UNCHANGED ohne_gen

\* line 77 finds the difference 0; lines 89-91 look for the first employee
\* with a count; without one the script goes on to line 115
KorrekturEnde ==
    /\ gen.pc = "schleife"
    /\ gen.difference = 0
    /\ LET e == naechster_mit_zusatz(gen.additional_absences_per_employee, 1)
       IN  gen' = [gen EXCEPT !.emp = e,
                              !.j = 1,
                              !.pc = IF e > num_employees
                                     THEN "schritt7" ELSE "schritt6"]
    /\ UNCHANGED ohne_gen

\* lines 91-112: one turn of the inner loop: additional entry j of employee
\* emp, with the start, the integer part of the drawn length and the reason
\* taken from `ziehungen`; after the last entry the script goes on to
\* line 115
ZusatzEintrag(ziehungen) ==
    /\ gen.pc = "schritt6"
    /\ \E z \in ziehungen :
        LET count       == gen.additional_absences_per_employee[gen.emp]
            random_days == randint(0, end_date - start_date, z.wahl)
            duration    == duration_of(z.laenge)
            letzte      == gen.j = count
            e           == IF letzte
                           THEN naechster_mit_zusatz(
                                    gen.additional_absences_per_employee,
                                    gen.emp + 1)
                           ELSE gen.emp
        IN  gen' = [gen EXCEPT
                      !.random_days = random_days,
                      !.duration = duration,
                      !.data = Append(gen.data,
                                      zusatz_eintrag(employee_ids[gen.emp],
                                                     random_days, duration,
                                                     z.grund)),
                      !.j = IF letzte THEN 1 ELSE gen.j + 1,
                      !.emp = e,
                      !.pc = IF e > num_employees THEN "schritt7" ELSE "schritt6"]
    /\ UNCHANGED ohne_gen

\* lines 115-119: the list is shuffled, in one of the given orders, and
\* written
Schreiben(orders) ==
    /\ gen.pc = "schritt7"
    /\ \E order \in orders :
        /\ ist_reihenfolge(order, Len(gen.data))
        /\ gen' = [gen EXCEPT !.data = shuffle(gen.data, order),
                              !.datei = shuffle(gen.data, order),
                              !.pc = "fertig"]
    /\ UNCHANGED ohne_gen

\* The whole script.  The counts are what total_entries is about, so the
\* draws that decide them range over all their values (the number of
\* periods, the counts drawn for the employees); the days of vacation are
\* the fewest or the most, every vacation starts as late as it can, and an
\* additional absence is five days of "Krankheit" in the middle of the year;
\* the shuffle gives one of the orders of shuffle_proben.
UrlaubTageProben == {28, 33}
ZusatzMitte == {[wahl |-> "mitte", laenge |-> 5, grund |-> absence_reasons[2]]}

UrlaubTageZuweisenProben == UrlaubTageZuweisen(UrlaubTageProben)
UrlaubEintragSpaet == UrlaubEintrag({"max"})
ZusatzEintragMitte == ZusatzEintrag(ZusatzMitte)
SchreibenProben == Schreiben(shuffle_proben(Len(gen.data)))

InitGen ==
    /\ AppNichtGestartet
    /\ gen = GenStart

NextGen ==
    \/ UrlaubTageZuweisenProben
    \/ UrlaubAufteilen
    \/ UrlaubEintragSpaet
    \/ RestVerteilen
    \/ Korrektur
    \/ KorrekturEnde
    \/ ZusatzEintragMitte
    \/ SchreibenProben

SpecGen == InitGen /\ [][NextGen]_vars

\* The correction loop alone, on its inputs: every vector of counts from 0
\* to MaxZusatz and every remaining_entries from 0 to total_entries.  The
\* script runs on by itself, so a turn of the loop that can be taken is
\* taken.
InitSchleife ==
    /\ AppNichtGestartet
    /\ \E v \in [1..num_employees -> 0..MaxZusatz], rest \in 0..total_entries :
        gen = [KeinLauf EXCEPT !.remaining_entries = rest,
                               !.additional_absences_per_employee = v,
                               !.difference = rest - SumSeq(v),
                               !.pc = "schleife"]

NextSchleife == Korrektur \/ KorrekturEnde

SpecSchleife ==
    InitSchleife /\ [][NextSchleife]_vars
    /\ WF_vars(Korrektur) /\ WF_vars(KorrekturEnde)

\* The entries of one employee, with every value of the draws that decide
\* the days (28 to 33 days, the same for all employees; 1 to 3 periods; each
\* start the earliest, a middle or the latest one), and the first additional
\* entry, for a start at the beginning, the middle or the end of the year,
\* lengths drawn from -1 to 9 and both reasons.
ZusatzZiehungen ==
    {[wahl |-> w, laenge |-> l, grund |-> absence_reasons[g]] :
        w \in {"min", "mitte", "max"}, l \in {0 - 1, 0, 1, 2, 5, 9}, g \in 2..3}

\* the script before line 89, after every employee was given 28 days in one
\* period that starts as late as it can, and the first employee all the
\* additional entries
VorSchritt6 ==
    [KeinLauf EXCEPT
       !.urlaub_tage_pro_mitarbeiter = [e \in 1..num_employees |-> 28],
       !.urlaub_entries_per_mitarbeiter =
           [e \in 1..num_employees |-> tage_pro_period(28, 1)],
       !.tage = 28,
       !.random_days = randint(0, (end_date - start_date) - 28, "max"),
       !.data = [e \in 1..num_employees |->
                    urlaub_eintrag(employee_ids[e], 28,
                                   randint(0, (end_date - start_date) - 28, "max"))],
       !.remaining_entries = total_entries - num_employees,
       !.additional_absences_per_employee =
           [e \in 1..num_employees |->
               IF e = 1 THEN total_entries - num_employees ELSE 0],
       !.emp = 1,
       !.j = 1,
       !.pc = "schritt6"]

UrlaubEintragErster == gen.emp = 1 /\ UrlaubEintrag({"min", "mitte", "max"})
ZusatzEintragErster == gen.j = 1 /\ ZusatzEintrag(ZusatzZiehungen)

InitEintrag ==
    /\ AppNichtGestartet
    /\ \/ \E t \in UrlaubTage :
            gen = [KeinLauf EXCEPT
                     !.urlaub_tage_pro_mitarbeiter = [e \in 1..num_employees |-> t],
                     !.pc = "schritt2"]
       \/ gen = VorSchritt6

NextEintrag == UrlaubAufteilen \/ UrlaubEintragErster \/ ZusatzEintragErster

SpecEintrag == InitEintrag /\ [][NextEintrag]_vars

----------------------------------------------------------------------------
(* Properties.                                                              *)

\* the expansion of the current table has been computed
Expanded == pc \in {"expanded", "figures", "layout"}
\* the figures of the current expansion have been computed
FiguresMade == pc \in {"figures", "layout"}
\* the summary of the current table has been computed
SummaryMade == pc = "layout"

\* C1: expand_abwesenheiten, on a table whose records all have start and end
\* dates with start <= end, yields for each record exactly one row per
\* calendar day from start to end (both inclusive) carrying the record's
\* employee id, name and reason, and no other rows; so the number of rows is
\* the sum over the records of (end - start) + 1.
C1_Pre ==
    \A i \in 1..Len(abwesenheiten) :
        /\ abwesenheiten[i].Startdatum # NaT
        /\ abwesenheiten[i].Enddatum # NaT
        /\ abwesenheiten[i].Startdatum <= abwesenheiten[i].Enddatum

C1_Keys == {<<r.Mitarbeiter_ID, r.Name, r.Grund>> : r \in Range(abwesenheiten)}
              \cup {<<x.Mitarbeiter_ID, x.Name, x.Grund>> : x \in Range(expanded_df)}

C1_Days == {x.Datum : x \in Range(expanded_df)}
              \cup UNION {r.Startdatum..r.Enddatum : r \in Range(abwesenheiten)}

C1_ExpandOneRowPerDay ==
    (Expanded /\ C1_Pre) =>
        /\ Len(expanded_df) =
              SumSeq([i \in 1..Len(abwesenheiten) |->
                  abwesenheiten[i].Enddatum - abwesenheiten[i].Startdatum + 1])
        /\ \A k \in C1_Keys, d \in C1_Days :
              Len(SelectSeq(expanded_df,
                        LAMBDA x : <<x.Mitarbeiter_ID, x.Name, x.Grund>> = k
                                   /\ x.Datum = d))
              = Len(SelectSeq(abwesenheiten,
                        LAMBDA r : <<r.Mitarbeiter_ID, r.Name, r.Grund>> = k
                                   /\ r.Startdatum <= d /\ d <= r.Enddatum))

\* two records of different length, one of them across the turn of the year
C1_Witness ==
    /\ Expanded /\ C1_Pre
    /\ Len(abwesenheiten) = 2
    /\ abwesenheiten[1].Enddatum - abwesenheiten[1].Startdatum = 9
    /\ abwesenheiten[2].Enddatum - abwesenheiten[2].Startdatum = 19
    /\ Len(expanded_df) = 30

----------------------------------------------------------------------------
\* the (employee id, name) pair of a record or of a summary row
C6_Pair(r) == <<r.Mitarbeiter_ID, r.Name>>

C6_KrankPairs ==
    {C6_Pair(r) : r \in {x \in Range(abwesenheiten) : x.Grund = "Krank"}}

C6_KrankSum(p) ==
    SumSeq([i \in 1..Len(abwesenheiten) |->
        IF C6_Pair(abwesenheiten[i]) = p /\ abwesenheiten[i].Grund = "Krank"
        THEN abwesenheiten[i].Fehltage ELSE 0])

C6_RowsOf(p) == {j \in 1..Len(krank_data) : C6_Pair(krank_data[j]) = p}

\* C6: for every table the sick-day summary has exactly one row for each
\* distinct (employee id, name) pair with at least one record whose reason is
\* exactly "Krank"; the row's sum is the sum of Fehltage over that pair's
\* "Krank" records only; other pairs do not appear; no "Krank" record, no row.
C6_Original ==
    SummaryMade =>
        /\ \A p \in C6_KrankPairs : Cardinality(C6_RowsOf(p)) = 1
        /\ \A j \in 1..Len(krank_data) :
              /\ C6_Pair(krank_data[j]) \in C6_KrankPairs
              /\ krank_data[j].Summe_Krank_Fehltage = C6_KrankSum(C6_Pair(krank_data[j]))

\* what create_krank_uebersicht does on every table: the same, but only for
\* the pairs whose employee id and name are both present; a "Krank" record
\* with a missing id or name has no row and is counted in no sum.
C6_KrankSummary ==
    SummaryMade =>
        /\ \A p \in C6_KrankPairs :
              Cardinality(C6_RowsOf(p)) = IF isna(p[1]) \/ isna(p[2]) THEN 0 ELSE 1
        /\ \A j \in 1..Len(krank_data) :
              /\ C6_Pair(krank_data[j]) \in C6_KrankPairs
              /\ krank_data[j].Summe_Krank_Fehltage = C6_KrankSum(C6_Pair(krank_data[j]))

\* one employee with a sick record of 10 days and a vacation of 20 days
C6_Witness ==
    /\ SummaryMade
    /\ Len(abwesenheiten) = 2
    /\ C6_Pair(abwesenheiten[1]) = C6_Pair(abwesenheiten[2])
    /\ abwesenheiten[1].Grund = "Krank" /\ abwesenheiten[1].Fehltage = 10
    /\ abwesenheiten[2].Grund = "Urlaub" /\ abwesenheiten[2].Fehltage = 20
    /\ Len(krank_data) = 1
    /\ krank_data[1].Summe_Krank_Fehltage = 10

\* C7: a summary row with sick-day sum x has the grinning smiley when
\* x <= 10, the neutral one when 10 < x <= 20, the confused one when
\* 20 < x <= 30 and the crying one when x > 30: 10, 20 and 30 fall into the
\* lower class, and every row has exactly one of the four.
C7_SmileyClasses ==
    SummaryMade =>
        \A j \in 1..Len(krank_data) :
            LET x  == krank_data[j].Summe_Krank_Fehltage
                sm == krank_data[j].Smiley
            IN  /\ (x <= 10) => sm = "U+1F604"
                /\ (10 < x /\ x <= 20) => sm = "U+1F610"
                /\ (20 < x /\ x <= 30) => sm = "U+1F615"
                /\ (x > 30) => sm = "U+1F622"
                /\ sm \in {"U+1F604", "U+1F610", "U+1F615", "U+1F622"}

\* a sum on the boundary 30, from two sick records of one employee
C7_Witness ==
    /\ SummaryMade
    /\ \E j \in 1..Len(krank_data) :
          /\ krank_data[j].Summe_Krank_Fehltage = 30
          /\ krank_data[j].Smiley = "U+1F615"

\* the bars of the chart by reason
C8_Bars == figuren.grund.data

C8_SumTage == SumSeq([k \in 1..Len(C8_Bars) |-> C8_Bars[k].Tage])

C8_BarsAreCounts ==
    \A k \in 1..Len(C8_Bars) :
        /\ C8_Bars[k].Grund \in {x.Grund : x \in Range(expanded_df)}
        /\ C8_Bars[k].Tage = Len(SelectSeq(expanded_df, LAMBDA x : x.Grund = C8_Bars[k].Grund))

\* C8: for a non-empty expanded table the chart by reason has one bar for
\* each reason that occurs, its value Tage the number of expanded rows with
\* that reason, and the values sum to the number of expanded rows.
C8_Original ==
    (FiguresMade /\ expanded_df # <<>>) =>
        /\ C8_BarsAreCounts
        /\ \A g \in {x.Grund : x \in Range(expanded_df)} :
              Cardinality({k \in 1..Len(C8_Bars) : C8_Bars[k].Grund = g}) = 1
        /\ C8_SumTage = Len(expanded_df)

\* what generate_figures does on every table: one bar for each reason that
\* occurs and is not missing; the rows without a reason are in no bar, and
\* the values sum to the number of
\* expanded rows that have a reason.
C8_ChartByReason ==
    (FiguresMade /\ expanded_df # <<>>) =>
        /\ C8_BarsAreCounts
        /\ \A g \in {x.Grund : x \in Range(expanded_df)} :
              Cardinality({k \in 1..Len(C8_Bars) : C8_Bars[k].Grund = g})
                  = IF isna(g) THEN 0 ELSE 1
        /\ C8_SumTage = Len(SelectSeq(expanded_df, LAMBDA x : ~isna(x.Grund)))

\* two reasons with different numbers of days
C8_Witness ==
    /\ FiguresMade
    /\ Len(C8_Bars) = 2
    /\ C8_Bars[1].Grund = "Krank" /\ C8_Bars[1].Tage = 10
    /\ C8_Bars[2].Grund = "Urlaub" /\ C8_Bars[2].Tage = 11

----------------------------------------------------------------------------
\* German names of a date's weekday (Monday first) and month, from the
\* calendar: 2024-12-23 was a Monday.
GermanWeekday(d) ==
    <<"Montag", "Dienstag", "Mittwoch", "Donnerstag", "Freitag", "Samstag",
      "Sonntag">>[((d - DaysFromCivil(2024, 12, 23)) % 7) + 1]

GermanMonth(d) ==
    <<"Januar", "Februar", "März", "April", "Mai", "Juni", "Juli", "August",
      "September", "Oktober", "November", "Dezember">>[CivilFromDays(d)[2]]

C9_WeekdayRows == figuren.wochentag.data
C9_MonthTraces == figuren.monat.data

\* every plotted value is the number of expanded rows of its weekday (month,
\* of any year) and reason
C9_ValuesAreCounts ==
    /\ \A k \in 1..Len(C9_WeekdayRows) :
          C9_WeekdayRows[k].Tage =
              Len(SelectSeq(expanded_df,
                        LAMBDA x : GermanWeekday(x.Datum) = C9_WeekdayRows[k].Wochentag
                                   /\ x.Grund = C9_WeekdayRows[k].Grund))
    /\ \A k \in 1..Len(C9_MonthTraces) :
          C9_MonthTraces[k].y =
              Len(SelectSeq(expanded_df,
                        LAMBDA x : GermanMonth(x.Datum) = C9_MonthTraces[k].x
                                   /\ x.Grund = C9_MonthTraces[k].name[2]))

C9_WeekdaySum == SumSeq([k \in 1..Len(C9_WeekdayRows) |-> C9_WeekdayRows[k].Tage])
C9_MonthSum == SumSeq([k \in 1..Len(C9_MonthTraces) |-> C9_MonthTraces[k].y])

\* C9: in the charts by weekday and by month the value of each (weekday,
\* reason) and (month, reason) pair is the number of expanded rows of that
\* weekday (month, of any year) and reason, and in each chart the values sum
\* to the number of expanded rows.
C9_Original ==
    (FiguresMade /\ expanded_df # <<>>) =>
        /\ C9_ValuesAreCounts
        /\ C9_WeekdaySum = Len(expanded_df)
        /\ C9_MonthSum = Len(expanded_df)

\* what generate_figures does on every table: the values are those counts,
\* every pair that occurs with a reason is plotted once, and in each chart
\* the values sum to the number of
\* expanded rows that have a reason (rows without a reason are not plotted).
C9_ChartsByWeekdayAndMonth ==
    (FiguresMade /\ expanded_df # <<>>) =>
        /\ C9_ValuesAreCounts
        /\ \A x \in Range(expanded_df) :
              /\ Cardinality({k \in 1..Len(C9_WeekdayRows) :
                     /\ C9_WeekdayRows[k].Wochentag = GermanWeekday(x.Datum)
                     /\ C9_WeekdayRows[k].Grund = x.Grund})
                   = IF isna(x.Grund) THEN 0 ELSE 1
              /\ Cardinality({k \in 1..Len(C9_MonthTraces) :
                     /\ C9_MonthTraces[k].x = GermanMonth(x.Datum)
                     /\ C9_MonthTraces[k].name = <<GermanMonth(x.Datum), x.Grund>>})
                   = IF isna(x.Grund) THEN 0 ELSE 1
        /\ C9_WeekdaySum = Len(SelectSeq(expanded_df, LAMBDA x : ~isna(x.Grund)))
        /\ C9_MonthSum = Len(SelectSeq(expanded_df, LAMBDA x : ~isna(x.Grund)))

\* two reasons on all seven weekdays, and January with two reasons of
\* different size
C9_Witness ==
    /\ FiguresMade
    /\ Len(C9_WeekdayRows) = 14
    /\ \E a, b \in 1..Len(C9_MonthTraces) :
          /\ C9_MonthTraces[a].x = "Januar" /\ C9_MonthTraces[b].x = "Januar"
          /\ C9_MonthTraces[a].y = 1 /\ C9_MonthTraces[b].y = 20

\* C10: the rows of the weekday chart are in the order Montag ... Sonntag
\* and the traces of the month chart in the order Januar ... Dezember, within
\* one weekday or month by reason; every expanded row's Wochentag is the
\* German name of its date's weekday (Monday first) and its Monat the German
\* name of its date's month.
C10_Pos(names, x) == CHOOSE i \in 1..Len(names) : names[i] = x

C10_Wochentage == <<"Montag", "Dienstag", "Mittwoch", "Donnerstag", "Freitag",
                    "Samstag", "Sonntag">>
C10_Monate == <<"Januar", "Februar", "März", "April", "Mai", "Juni", "Juli",
                "August", "September", "Oktober", "November", "Dezember">>

C10_ChartOrder ==
    /\ Expanded =>
          \A x \in Range(expanded_df) :
              /\ x.Wochentag = GermanWeekday(x.Datum)
              /\ x.Monat = GermanMonth(x.Datum)
    /\ (FiguresMade /\ expanded_df # <<>>) =>
          /\ \A i, j \in 1..Len(C9_WeekdayRows) :
                (i < j) =>
                    LET a == C9_WeekdayRows[i]
                        b == C9_WeekdayRows[j]
                    IN  \/ C10_Pos(C10_Wochentage, a.Wochentag)
                             < C10_Pos(C10_Wochentage, b.Wochentag)
                        \/ /\ a.Wochentag = b.Wochentag
                           /\ StrLess(a.Grund, b.Grund)
          /\ \A i, j \in 1..Len(C9_MonthTraces) :
                (i < j) =>
                    LET a == C9_MonthTraces[i]
                        b == C9_MonthTraces[j]
                    IN  \/ C10_Pos(C10_Monate, a.x) < C10_Pos(C10_Monate, b.x)
                        \/ /\ a.x = b.x
                           /\ StrLess(a.name[2], b.name[2])

\* the table starts in December and goes on in January: Januar is plotted
\* first; Montag comes before Dienstag although Dienstag sorts first
C10_Witness ==
    /\ FiguresMade
    /\ expanded_df # <<>>
    /\ Len(C9_MonthTraces) >= 2
    /\ Len(C9_WeekdayRows) >= 2
    /\ expanded_df[1].Monat = "Dezember"
    /\ C9_MonthTraces[1].x = "Januar"
    /\ C9_MonthTraces[Len(C9_MonthTraces)].x = "Dezember"
    /\ C9_WeekdayRows[1].Wochentag = "Montag"
    /\ \E k \in 1..Len(C9_WeekdayRows) : C9_WeekdayRows[k].Wochentag = "Dienstag"

----------------------------------------------------------------------------
\* the last row of the table
LastRow == abwesenheiten[Len(abwesenheiten)]

\* C2: after the initial load and after every successful add, every record
\* has Fehltage = (Enddatum - Startdatum in days) + 1 (a record without a
\* date has no day-count); the record a successful add appended has
\* Startdatum <= Enddatum and so Fehltage >= 1.
C2_FehltageDerived ==
    /\ (pc # "import") =>
          \A i \in 1..Len(abwesenheiten) :
              IF abwesenheiten[i].Startdatum = NaT \/ abwesenheiten[i].Enddatum = NaT
              THEN abwesenheiten[i].Fehltage = NaN
              ELSE abwesenheiten[i].Fehltage =
                      abwesenheiten[i].Enddatum - abwesenheiten[i].Startdatum + 1
    /\ (rueckmeldung = MSG_OK) =>
          /\ LastRow.Startdatum <= LastRow.Enddatum
          /\ LastRow.Fehltage >= 1

\* a one-day absence added to a table loaded from the file
C2_Witness ==
    /\ rueckmeldung = MSG_OK
    /\ Len(abwesenheiten) = 2
    /\ LastRow.Startdatum = LastRow.Enddatum
    /\ LastRow.Fehltage = 1
    /\ abwesenheiten[1].Fehltage = 2

\* C3: an add click with name, start date, end date or reason missing or
\* empty returns "Alle Felder müssen ausgefüllt werden!", appends no record
\* and leaves the table and the CSV file as they were.
C3_MissingFieldRejected ==
    [][(pc = "serving" /\ letzter_klick' = "feld_fehlt") =>
          /\ rueckmeldung' = MSG_FELDER
          /\ abwesenheiten' = abwesenheiten
          /\ csv_datei' = csv_datei]_vars

\* a click with a missing field on a table that has a record and a file
C3_Witness ==
    /\ letzter_klick = "feld_fehlt"
    /\ rueckmeldung = MSG_FELDER
    /\ Len(abwesenheiten) >= 1
    /\ csv_datei.exists

\* C4: an add click with all fields filled and the start date after the end
\* date returns "Das Startdatum darf nicht nach dem Enddatum liegen!" and
\* leaves the table and the CSV file unchanged; with the start date equal to
\* or before the end date the record is accepted.
C4_DateOrder ==
    [][(pc = "serving") =>
          /\ (letzter_klick' = "start_nach_ende") =>
                /\ rueckmeldung' = MSG_DATUM
                /\ abwesenheiten' = abwesenheiten
                /\ csv_datei' = csv_datei
          /\ (letzter_klick' = "gueltig") =>
                /\ rueckmeldung' = MSG_OK
                /\ Len(abwesenheiten') = Len(abwesenheiten) + 1
                /\ SubSeq(abwesenheiten', 1, Len(abwesenheiten)) = abwesenheiten]_vars

\* a click with start after end on a table that has a record and a file
C4_Witness ==
    /\ letzter_klick = "start_nach_ende"
    /\ rueckmeldung = MSG_DATUM
    /\ Len(abwesenheiten) >= 1
    /\ csv_datei.exists

\* C5: when a successful add returns, the CSV file holds the records of the
\* table in the same order, and load_data applied to it yields a table equal
\* to the in-memory table.
C5_RoundTrip ==
    (rueckmeldung = MSG_OK) =>
        /\ csv_datei.exists
        /\ Len(csv_datei.rows) = Len(abwesenheiten)
        /\ load_data(csv_datei) = abwesenheiten

----------------------------------------------------------------------------
\* the rows of the table inside the export period of the last download
C19_Inside ==
    {i \in 1..Len(abwesenheiten) :
        /\ to_datetime(export.von) <= abwesenheiten[i].Startdatum
        /\ abwesenheiten[i].Enddatum <= to_datetime(export.bis)}

\* the k-th of them in table order
C19_Nth(k) == CHOOSE i \in C19_Inside : Cardinality({j \in C19_Inside : j < i}) = k - 1

\* the exported rows as table rows: the cells of a csv file are read back
C19_Exported ==
    IF export.art = "csv"
    THEN read_rows(export.data.content)
    ELSE export.data.content

\* C19: for export dates from <= to, the export holds exactly the records of
\* the table with Startdatum >= from and Enddatum <= to, in table order; a
\* record that only partly overlaps the period is not exported, and nothing
\* that is not in the table is.
C19_ExportFilter ==
    (export.art # "kein" /\ export.von # <<>> /\ export.bis # <<>>
        /\ to_datetime(export.von) <= to_datetime(export.bis)) =>
       /\ Len(export.data.content) = Cardinality(C19_Inside)
       /\ \A k \in 1..Len(export.data.content) :
             C19_Exported[k] = abwesenheiten[C19_Nth(k)]

\* a table with a record inside the period and one that ends after it: only
\* the first is exported
C19_Witness ==
    /\ export.art = "csv"
    /\ export.von = <<2025, 1, 10>> /\ export.bis = <<2025, 1, 15>>
    /\ Len(abwesenheiten) = 2
    /\ abwesenheiten[1].Enddatum > to_datetime(export.bis)
    /\ abwesenheiten[1].Startdatum >= to_datetime(export.von)
    /\ Len(export.data.content) = 1
    /\ C19_Exported[1] = abwesenheiten[2]

\* C20: a download delivers no file and a non-empty message in exactly three
\* cases, checked in this order: a missing from or to date, from after to,
\* and no record inside the period, each with its own message; in every
\* other case a file is delivered and the message is empty.
C20_ExportErrors ==
    (export.art # "kein") =>
        IF export.von = <<>> \/ export.bis = <<>>
        THEN export.data = NoData /\ export.fehler = "Bitte wählen Sie ein Start- und Enddatum aus."
        ELSE IF to_datetime(export.von) > to_datetime(export.bis)
        THEN export.data = NoData
             /\ export.fehler = "Das Startdatum darf nicht nach dem Enddatum liegen!"
        ELSE IF C19_Inside = {}
        THEN export.data = NoData
             /\ export.fehler = "Keine Daten im ausgewählten Zeitraum gefunden!"
        ELSE export.data # NoData /\ export.data.content # <<>> /\ export.fehler = ""

\* an Excel download of a period that holds no record of a non-empty table
C20_Witness ==
    /\ export.art = "xlsx"
    /\ export.von = <<2025, 1, 20>> /\ export.bis = <<2025, 1, 20>>
    /\ abwesenheiten # <<>>
    /\ export.data = NoData
    /\ export.fehler = MSG_EXPORT_LEER

----------------------------------------------------------------------------
\* C14: every successful add returns "Abwesenheit erfolgreich hinzugefügt!"
\* with a records table, a sick-day summary and four charts that are all
\* derived from one table state: the table in memory, which holds the new
\* record and is what the CSV file holds.
C14_MutateRecomputeRender ==
    (pc = "serving" /\ rueckmeldung = MSG_OK) =>
        /\ letzter_klick = "gueltig"
        /\ abwesenheiten # <<>>
        /\ csv_datei = to_csv(abwesenheiten)
        /\ tabelle_data = abwesenheiten
        /\ krank_data = create_krank_uebersicht(abwesenheiten)
        /\ figuren = generate_figures(expand_abwesenheiten(abwesenheiten))

\* a sick record added to a table with a sick record of the same employee:
\* the summary shows the sum of both
C14_Witness ==
    /\ letzter_klick = "gueltig"
    /\ rueckmeldung = MSG_OK
    /\ Len(abwesenheiten) = 2
    /\ abwesenheiten[1].Grund = "Krank" /\ abwesenheiten[2].Grund = "Krank"
    /\ abwesenheiten[1].Name = abwesenheiten[2].Name
    /\ Len(krank_data) = 1
    /\ krank_data[1].Summe_Krank_Fehltage =
          abwesenheiten[1].Fehltage + abwesenheiten[2].Fehltage
    /\ Len(tabelle_data) = 2

\* C15: after every add click, accepted or rejected, the sick-day summary and
\* the four charts shown equal create_krank_uebersicht and generate_figures
\* of the current table; a rejected click on a table with "Krank" records
\* still shows the sick-day sums and the real charts.
C15_DisplayConsistent ==
    (pc = "serving" /\ letzter_klick # "kein") =>
        /\ krank_data = create_krank_uebersicht(abwesenheiten)
        /\ figuren = generate_figures(expand_abwesenheiten(abwesenheiten))

\* the rows of tab, before an add, whose name is the given one
C16_Hits(tab, name) == {i \in 1..Len(tab) : tab[i].Name = name}

\* all records of one name carry one employee id
C16_OneIdPerName(tab) ==
    \A i, j \in 1..Len(tab) :
        (tab[i].Name = tab[j].Name /\ ~isna(tab[i].Name)) =>
            tab[i].Mitarbeiter_ID = tab[j].Mitarbeiter_ID

\* the table neu is the table alt and one new record at its end, whose id is
\* that of the first record of alt with the same name or, without such a
\* record, a generated one
C16_Regel(alt, neu) ==
    /\ Len(neu) = Len(alt) + 1
    /\ LET new  == neu[Len(neu)]
           hits == C16_Hits(alt, new.Name)
       IN  IF hits # {}
           THEN new.Mitarbeiter_ID = alt[SetMin(hits)].Mitarbeiter_ID
           ELSE new.Mitarbeiter_ID \in {"EMP-1a2b3c4d", "EMP-9f8e7d6c"}

\* C16: a successful add with the name of an existing record gives the new
\* record the employee id of the first such record in table order, also
\* when later records of that name carry another id; with a new name it
\* gets a freshly generated id "EMP-" + 8 hex characters.  This holds for
\* the record an add of app.py (main.py) appends at line 243 (671).  If all
\* records of one name share one id, they still do after every step.
C16_IdAssignment ==
    [][/\ \A t \in 1..Len(anfragen) :
             /\ (anfragen[t].pc = "243=" /\ anfragen'[t].pc = "244") =>
                   C16_Regel(abwesenheiten, abwesenheiten')
             /\ (anfragen[t].pc = "671=" /\ anfragen'[t].pc = "672") =>
                   C16_Regel(main.abwesenheiten, main'.abwesenheiten)
       /\ (pc = "serving" /\ C16_OneIdPerName(abwesenheiten)) =>
             C16_OneIdPerName(abwesenheiten')
       /\ (main.pc = "serving" /\ C16_OneIdPerName(main.abwesenheiten)) =>
             C16_OneIdPerName(main'.abwesenheiten)]_vars

\* the table of app.py held two records of one name with different ids; a
\* successful add with that name has appended a third, which carries the id
\* of the first and not that of the second
C16_Witness ==
    /\ Len(anfragen) = 1
    /\ anfragen[1].programm = "app.py"
    /\ anfragen[1].antwort.rueckmeldung = MSG_OK
    /\ Len(abwesenheiten) = 3
    /\ abwesenheiten[1].Name = "Anna"
    /\ abwesenheiten[2].Name = "Anna"
    /\ abwesenheiten[3].Name = "Anna"
    /\ abwesenheiten[1].Mitarbeiter_ID = "EMP-9f8e7d6c"
    /\ abwesenheiten[2].Mitarbeiter_ID = "EMP-1a2b3c4d"
    /\ abwesenheiten[3].Mitarbeiter_ID = "EMP-9f8e7d6c"
    /\ Len(csv_datei.rows) = 3

\* C17: a successful add increases the number of records by exactly one and
\* places the new record last; employee id, name, start date, end date and
\* reason of every earlier record, and their order, stay as they were; no
\* step of the running dashboard removes or edits a record.
C17_AppendOnly ==
    [][(pc = "serving") =>
          /\ Len(abwesenheiten') >= Len(abwesenheiten)
          /\ \A i \in 1..Len(abwesenheiten) :
                /\ abwesenheiten'[i].Mitarbeiter_ID = abwesenheiten[i].Mitarbeiter_ID
                /\ abwesenheiten'[i].Name = abwesenheiten[i].Name
                /\ abwesenheiten'[i].Startdatum = abwesenheiten[i].Startdatum
                /\ abwesenheiten'[i].Enddatum = abwesenheiten[i].Enddatum
                /\ abwesenheiten'[i].Grund = abwesenheiten[i].Grund
          /\ (letzter_klick' = "gueltig") =>
                Len(abwesenheiten') = Len(abwesenheiten) + 1]_vars

\* a record added after another one with a different name, reason and dates
C17_Witness ==
    /\ letzter_klick = "gueltig"
    /\ Len(abwesenheiten) = 2
    /\ abwesenheiten[1].Name # abwesenheiten[2].Name
    /\ abwesenheiten[1].Grund # abwesenheiten[2].Grund
    /\ abwesenheiten[1].Startdatum # abwesenheiten[2].Startdatum
    /\ Len(csv_datei.rows) = 2

----------------------------------------------------------------------------
----------------------------------------------------------------------------
\* a row without its employee id, and a table or file with every id left out
C11_OhneId(r) == [f \in DOMAIN r \ {"Mitarbeiter_ID"} |-> r[f]]
C11_Zeilen(tab) == [i \in 1..Len(tab) |-> C11_OhneId(tab[i])]

\* two summaries hold the same rows, ids left out, whatever their order
C11_GleicheSumme(a, b) ==
    /\ Len(a) = Len(b)
    /\ \A x \in Range(C11_Zeilen(a)) \cup Range(C11_Zeilen(b)) :
          Cardinality({i \in 1..Len(a) : C11_OhneId(a[i]) = x})
          = Cardinality({i \in 1..Len(b) : C11_OhneId(b[i]) = x})

\* C11: started from the same CSV content and given the same add clicks
\* (also reason "Andere" with an empty custom text), app.py and main.py
\* return the same feedback messages and hold the same table, the same CSV
\* file and the same sick-day summary, up to the freshly generated ids.
C11_VariantsAgree ==
    (pc = "serving" /\ main.pc = "serving") =>
        /\ main.rueckmeldung = rueckmeldung
        /\ C11_Zeilen(main.abwesenheiten) = C11_Zeilen(abwesenheiten)
        /\ C11_Zeilen(main.tabelle_data) = C11_Zeilen(tabelle_data)
        /\ main.csv_datei.exists = csv_datei.exists
        /\ C11_Zeilen(main.csv_datei.rows) = C11_Zeilen(csv_datei.rows)
        /\ C11_GleicheSumme(main.krank_data, krank_data)

\* C18: the record stored by a successful add has a non-empty reason, in
\* either variant: a predefined dropdown value is stored as it is, "Andere"
\* with a custom text stores the custom text, and "Andere" without a custom
\* text still stores a non-empty string, never a null or "".
C18_ReasonNonEmpty ==
    [][(pc = "serving" /\ main.pc = "serving" /\ letzter_klick' = "gueltig") =>
          LET app_neu  == abwesenheiten'[Len(abwesenheiten')]
              main_neu == main'.abwesenheiten[Len(main'.abwesenheiten)]
          IN  /\ ~isna(app_neu.Grund) /\ app_neu.Grund # ""
              /\ ~isna(main_neu.Grund) /\ main_neu.Grund # ""
              /\ app_neu.Grund \in {"Krank", "Andere", "Kur"}
              /\ main_neu.Grund \in {"Krank", "Andere", "Kur"}]_vars

----------------------------------------------------------------------------
\* the requests to the program that have returned "Abwesenheit erfolgreich
\* hinzugefügt!"
C13_Accepted(programm) ==
    {t \in 1..Len(anfragen) : /\ anfragen[t].programm = programm
                              /\ anfragen[t].antwort.rueckmeldung = MSG_OK}

\* C13: the read of the global table, the append, the reassignment and the
\* CSV write of one add are never interleaved with those of another add, so
\* that once k adds have been accepted on a table of n records (the table
\* the layout was built from) and every request has returned, the table and
\* the CSV file both hold n + k records: no accepted record is lost, also
\* when two requests are handled at the same time; in app.py and likewise
\* in main.py.
C13_NoLostAdd ==
    (\A t \in 1..Len(anfragen) : anfragen[t].pc = "fertig") =>
        /\ (pc = "serving") =>
              /\ Len(abwesenheiten)
                    = Len(tabelle_data) + Cardinality(C13_Accepted("app.py"))
              /\ Len(csv_datei.rows)
                    = Len(tabelle_data) + Cardinality(C13_Accepted("app.py"))
        /\ (main.pc = "serving") =>
              /\ Len(main.abwesenheiten)
                    = Len(main.tabelle_data) + Cardinality(C13_Accepted("main.py"))
              /\ Len(main.csv_datei.rows)
                    = Len(main.tabelle_data) + Cardinality(C13_Accepted("main.py"))

----------------------------------------------------------------------------
\* the records a download delivers, as table rows: the cells of a csv file
\* are read back, a record with an empty Fehltage cell has no Fehltage
C21_Rows(e) ==
    IF e.art = "csv"
    THEN [i \in 1..Len(e.data.content) |->
            LET c == e.data.content[i]
            IN  IF c.Fehltage = <<>>
                THEN [Mitarbeiter_ID |-> read_text(c.Mitarbeiter_ID),
                      Name           |-> read_text(c.Name),
                      Startdatum     |-> read_date(c.Startdatum),
                      Enddatum       |-> read_date(c.Enddatum),
                      Grund          |-> read_text(c.Grund)]
                ELSE [Mitarbeiter_ID |-> read_text(c.Mitarbeiter_ID),
                      Name           |-> read_text(c.Name),
                      Startdatum     |-> read_date(c.Startdatum),
                      Enddatum       |-> read_date(c.Enddatum),
                      Grund          |-> read_text(c.Grund),
                      Fehltage       |-> c.Fehltage[1]]]
    ELSE e.data.content

\* the records of tab that lie inside the period von .. bis
C21_InPeriod(tab, von, bis) ==
    SelectSeq(tab, LAMBDA r : /\ to_datetime(von) <= r.Startdatum
                              /\ r.Enddatum <= to_datetime(bis))

\* the record the accepted request t has added is among the rows
C21_Enthaelt(rows, t) ==
    \E i \in 1..Len(rows) :
        /\ rows[i].Mitarbeiter_ID = anfragen[t].mitarbeiter_id
        /\ rows[i].Name = anfragen[t].klick.name
        /\ rows[i].Startdatum = to_datetime(anfragen[t].klick.start_datum)
        /\ rows[i].Enddatum = to_datetime(anfragen[t].klick.end_datum)
        /\ rows[i].Grund = anfragen[t].klick.grund
        /\ rows[i].Fehltage = to_datetime(anfragen[t].klick.end_datum)
                                - to_datetime(anfragen[t].klick.start_datum) + 1

\* C21: download_csv and download_excel change neither the table in memory
\* nor the CSV file, at whatever point of an add they are clicked;
\* whichever of the two is clicked, the file delivered holds the records of
\* the table as it is at the click that lie inside the period, a record
\* appended by line 243 and still without its Fehltage included; and a
\* download after an add has returned its success message holds the added
\* record whenever that record lies inside the period.
C21_ExportReadsCurrent ==
    [][(pc = "serving" /\ export' # export) =>
          /\ abwesenheiten' = abwesenheiten
          /\ csv_datei' = csv_datei
          /\ anfragen' = anfragen
          /\ (export'.fehler = "") =>
                C21_Rows(export') = C21_InPeriod(abwesenheiten, export'.von, export'.bis)
          /\ \A t \in 1..Len(anfragen) :
                (/\ anfragen[t].antwort.rueckmeldung = MSG_OK
                 /\ export'.von # <<>> /\ export'.bis # <<>>
                 /\ to_datetime(export'.von) <= to_datetime(anfragen[t].klick.start_datum)
                 /\ to_datetime(anfragen[t].klick.end_datum) <= to_datetime(export'.bis)) =>
                   /\ export'.fehler = ""
                   /\ C21_Enthaelt(C21_Rows(export'), t)]_vars

\* started without a file; a first add for 12-14 January has returned its
\* success message, a second one has appended its record (line 243) and
\* not yet set its Fehltage (line 244); a CSV download for 10-15 January
\* clicked at that point holds both records, the second without Fehltage
C21_Witness ==
    /\ Len(anfragen) = 2
    /\ anfragen[1].antwort.rueckmeldung = MSG_OK
    /\ anfragen[2].pc \in {"244", "244b", "244c"}
    /\ Len(abwesenheiten) = 2
    /\ "Fehltage" \in DOMAIN abwesenheiten[1]
    /\ "Fehltage" \notin DOMAIN abwesenheiten[2]
    /\ export.art = "csv"
    /\ export.von = <<2025, 1, 10>> /\ export.bis = <<2025, 1, 15>>
    /\ export.fehler = ""
    /\ C21_Rows(export) = abwesenheiten
    /\ C21_Enthaelt(C21_Rows(export), 1)

----------------------------------------------------------------------------
\* C22: when the CSV file does not exist, the start-up raises no error:
\* load_data returns an empty table with the columns Mitarbeiter-ID, Name,
\* Startdatum, Enddatum, Grund, expand_abwesenheiten an empty table,
\* create_krank_uebersicht an empty summary and generate_figures four
\* placeholder charts titled "Keine Daten verfügbar"; the first successful
\* add on this empty table succeeds and yields a table of one record with
\* its Fehltage set.
C22_StartWithoutData ==
    [][(~csv_datei.exists) =>
          /\ pc' \notin {"ValueError", AttributeError}
          /\ (~csv_datei'.exists) =>
                /\ abwesenheiten' = <<>>
                /\ expanded_df' = <<>>
                /\ krank_data' = <<>>
                /\ \A f \in {figuren'.grund, figuren'.wochentag,
                             figuren'.monat, figuren'.statistik} :
                      f.title = "Keine Daten verfügbar" /\ f.data = <<>>
                /\ (pc' = "serving") =>
                      tabelle_columns' = <<"Mitarbeiter-ID", "Name", "Startdatum",
                                           "Enddatum", "Grund">>
          /\ (pc = "serving" /\ letzter_klick' = "gueltig") =>
                /\ rueckmeldung' = MSG_OK
                /\ csv_datei'.exists
                /\ Len(abwesenheiten') = 1
                /\ abwesenheiten'[1].Fehltage =
                      abwesenheiten'[1].Enddatum - abwesenheiten'[1].Startdatum + 1
                /\ tabelle_data' = abwesenheiten']_vars

\* started without a file, the first add has stored one record of two days
C22_Witness ==
    /\ pc = "serving"
    /\ tabelle_columns = RECORD_COLUMNS
    /\ rueckmeldung = MSG_OK
    /\ Len(abwesenheiten) = 1
    /\ abwesenheiten[1].Fehltage = 2
    /\ Len(csv_datei.rows) = 1

\* C23: the columns of the displayed records table include Fehltage after
\* any successful add, also when the application was started without a CSV
\* file.
C23_FehltageShown ==
    (pc = "serving" /\ rueckmeldung = MSG_OK) =>
        \E i \in 1..Len(tabelle_columns) : tabelle_columns[i] = "Fehltage"

----------------------------------------------------------------------------
\* the rows of the expanded table of one (employee id, name) pair with
\* reason "Krank"
C24_KrankDays(p) ==
    Len(SelectSeq(expanded_df, LAMBDA x : C6_Pair(x) = p /\ x.Grund = "Krank"))

\* the sum the summary shows for the pair, 0 when it has no row for it
C24_Summe(p) ==
    SumSeq([j \in 1..Len(krank_data) |->
        IF C6_Pair(krank_data[j]) = p THEN krank_data[j].Summe_Krank_Fehltage ELSE 0])

\* the value of the "Krank" bar of the chart by reason, 0 when there is none
C24_KrankBar ==
    SumSeq([k \in 1..Len(figuren.grund.data) |->
        IF figuren.grund.data[k].Grund = "Krank" THEN figuren.grund.data[k].Tage ELSE 0])

\* every record of the table has both dates, the start not after the end
C24_Pre ==
    \A i \in 1..Len(abwesenheiten) :
        /\ abwesenheiten[i].Startdatum # NaT /\ abwesenheiten[i].Enddatum # NaT
        /\ abwesenheiten[i].Startdatum <= abwesenheiten[i].Enddatum

\* C24: for every table whose records all have start <= end and for every
\* employee (id, name), the "Summe Krank-Fehltage" of the summary equals the
\* number of expanded rows with that id, that name and reason "Krank"; and
\* the sick-day sums add up to the "Krank" bar of the chart by reason.
C24_SummaryMatchesCharts ==
    (SummaryMade /\ C24_Pre) =>
        /\ \A p \in {C6_Pair(r) : r \in Range(abwesenheiten)} :
              C24_Summe(p) = C24_KrankDays(p)
        /\ SumSeq([j \in 1..Len(krank_data) |-> krank_data[j].Summe_Krank_Fehltage])
              = C24_KrankBar

----------------------------------------------------------------------------
\* the rows of the statistics chart, one per month name
C25_Stats == figuren.statistik.data

\* the calendar days from the earliest to the latest date of the expanded
\* table
C25_Days ==
    LET daten == {x.Datum : x \in Range(expanded_df)}
    IN  {d \in SetMin(daten)..SetMax(daten) : TRUE}

\* the number of expanded rows on day d
C25_Count(d) == Len(SelectSeq(expanded_df, LAMBDA x : x.Datum = d))

\* the calendar days of the range that fall in the month named m
C25_DaysOf(m) == {d \in C25_Days : GermanMonth(d) = m}

\* C25: create_statistics_figure considers every calendar day from the
\* earliest to the latest date of the expanded table, a day without absence
\* counting 0.  For each month name Tage_gesamt is the number of those days
\* in that month and Tage_mit_Abwesenheit the number of them with at least
\* one expanded row, so 0 <= Tage_mit_Abwesenheit <= Tage_gesamt; Min <= Max,
\* Max is the largest number of expanded rows on one day of the month; the
\* months are reported in calendar order.
C25_StatisticsFigure ==
    (FiguresMade /\ expanded_df # <<>>) =>
        /\ {C25_Stats[k].Monat : k \in 1..Len(C25_Stats)}
              = {GermanMonth(d) : d \in C25_Days}
        /\ \A k \in 1..Len(C25_Stats) :
              LET r    == C25_Stats[k]
                  days == C25_DaysOf(r.Monat)
              IN  /\ r.Tage_gesamt = Cardinality(days)
                  /\ r.Tage_mit_Abwesenheit =
                        Cardinality({d \in days : C25_Count(d) >= 1})
                  /\ 0 <= r.Tage_mit_Abwesenheit
                  /\ r.Tage_mit_Abwesenheit <= r.Tage_gesamt
                  /\ r.Min <= r.Max
                  /\ \E d \in days : C25_Count(d) = r.Max
                  /\ \A d \in days : C25_Count(d) <= r.Max
                  /\ \E d \in days : C25_Count(d) = r.Min
        /\ \A i, j \in 1..Len(C25_Stats) :
              (i < j) => C10_Pos(C10_Monate, C25_Stats[i].Monat)
                            < C10_Pos(C10_Monate, C25_Stats[j].Monat)

\* absences in December and in February and none in between: Januar is
\* reported first, with 31 days and none with an absence; Dezember last
C25_Witness ==
    /\ FiguresMade
    /\ Len(C25_Stats) = 3
    /\ C25_Stats[1].Monat = "Januar"
    /\ C25_Stats[1].Tage_gesamt = 31
    /\ C25_Stats[1].Tage_mit_Abwesenheit = 1
    /\ C25_Stats[1].Min = 0
    /\ C25_Stats[2].Monat = "Februar"
    /\ C25_Stats[2].Tage_gesamt = 4
    /\ C25_Stats[2].Tage_mit_Abwesenheit = 2
    /\ C25_Stats[3].Monat = "Dezember"
    /\ C25_Stats[3].Tage_gesamt = 9

\* the day number of the date text of an entry
C26_Tag(t) == DaysFromCivil(t[1], t[2], t[3])

\* the entries of the list with the reason 'Urlaub'
C26_Urlaub == SelectSeq(gen.data, LAMBDA r : r.absence_reason = absence_reasons[1])

\* the additional entries of employee e in the list
C26_Zusatz(e) ==
    SelectSeq(gen.data, LAMBDA r : /\ r.employee_id = employee_ids[e]
                                   /\ r.absence_reason # absence_reasons[1])

\* C26: the script produces exactly total_entries entries: the vacation
\* entries never exceed total_entries (each employee has 1 to 3 of them),
\* after the correction the counts of additional entries are all >= 0 and
\* sum to total_entries minus the number of vacation entries, every employee
\* gets as many additional entries as its count says, and the list and the
\* written file have total_entries entries.
C26_TotalSize ==
    /\ gen.pc \in {"schritt4", "schleife", "schritt6", "schritt7", "fertig"}
         => /\ Len(C26_Urlaub) <= total_entries
            /\ Len(C26_Urlaub) >= num_employees
            /\ Len(C26_Urlaub) <= 3 * num_employees
    /\ gen.pc \in {"schritt6", "schritt7", "fertig"}
         => /\ SumSeq(gen.additional_absences_per_employee)
                  = total_entries - Len(C26_Urlaub)
            /\ \A e \in 1..num_employees :
                  gen.additional_absences_per_employee[e] >= 0
    /\ gen.pc \in {"schritt7", "fertig"}
         => /\ Len(gen.data) = total_entries
            /\ \A e \in 1..num_employees :
                  Len(C26_Zusatz(e)) = gen.additional_absences_per_employee[e]
    /\ gen.pc = "fertig" => Len(gen.datei) = total_entries

\* the file is written with total_entries entries, and the correction gave
\* an employee more entries than any draw
C26_Witness ==
    /\ gen.pc = "fertig"
    /\ Len(gen.datei) = total_entries
    /\ \E e \in 1..num_employees :
          gen.additional_absences_per_employee[e] > MaxZusatz

C27_Abs(x) == IF x < 0 THEN 0 - x ELSE x

\* the while loop has ended: line 77 found the difference 0
C27_Exit == gen.pc \in {"schritt6", "schritt7"}

\* C27: the correction loop ends for every vector of counts >= 0 and every
\* remaining_entries >= 0; every turn of the while loop brings the
\* difference nearer to 0 by at least one and never past 0; when the loop
\* has ended the counts are all >= 0 and sum to remaining_entries.
C27_LoopTerminates ==
    /\ [][(gen.pc = "schleife" /\ gen'.pc = "schleife")
            => /\ C27_Abs(gen'.difference) <= C27_Abs(gen.difference) - 1
               /\ gen.difference > 0 => gen'.difference >= 0
               /\ gen.difference < 0 => gen'.difference <= 0]_vars
    /\ [](C27_Exit
            => /\ \A e \in 1..num_employees :
                     gen.additional_absences_per_employee[e] >= 0
               /\ SumSeq(gen.additional_absences_per_employee)
                     = gen.remaining_entries)
    /\ <>C27_Exit

\* the loop has ended after it raised a count above every count it was
\* started with
C27_Witness ==
    /\ C27_Exit
    /\ \E e \in 1..num_employees :
          gen.additional_absences_per_employee[e] > MaxZusatz

\* C28: every entry of the list starts on or after 2023-01-01, ends on or
\* before 2023-12-31 and does not start after it ends; the last vacation
\* entry starts random_days after 2023-01-01 and ends tage - 1 days later,
\* which is never after 2023-12-31, so nothing is cut; the last additional
\* entry ends `duration` days after its start, or on 2023-12-31 when that
\* would be later.
C28_ValidIntervals ==
    /\ \A i \in 1..Len(gen.data) :
          /\ start_date <= C26_Tag(gen.data[i].absence_start)
          /\ C26_Tag(gen.data[i].absence_start) <= C26_Tag(gen.data[i].absence_end)
          /\ C26_Tag(gen.data[i].absence_end) <= end_date
    /\ (gen.data # <<>> /\ gen.pc # "fertig")
         => LET r     == gen.data[Len(gen.data)]
                start == start_date + gen.random_days
            IN  /\ C26_Tag(r.absence_start) = start
                /\ r.absence_reason = absence_reasons[1]
                     => /\ start + gen.tage - 1 <= end_date
                        /\ C26_Tag(r.absence_end) = start + gen.tage - 1
                /\ r.absence_reason # absence_reasons[1]
                     => C26_Tag(r.absence_end)
                           = (IF start + gen.duration > end_date
                              THEN end_date ELSE start + gen.duration)

\* an additional entry that would have ended in 2024 ends on 2023-12-31
C28_Witness ==
    /\ gen.data # <<>>
    /\ gen.data[Len(gen.data)].absence_reason # absence_reasons[1]
    /\ start_date + gen.random_days + gen.duration > end_date
    /\ gen.data[Len(gen.data)].absence_end = <<2023, 12, 31>>

\* the vacation entries of employee e in the list
C29_Urlaub(e) ==
    SelectSeq(gen.data, LAMBDA r : /\ r.employee_id = employee_ids[e]
                                   /\ r.absence_reason = absence_reasons[1])

\* the days of an entry, first and last day counted
C29_Tage(r) == C26_Tag(r.absence_end) - C26_Tag(r.absence_start) + 1

\* the vacation entries of employee e are all in the list
C29_Fertig(e) ==
    \/ gen.pc \in {"schritt4", "schleife", "schritt6", "schritt7", "fertig"}
    \/ gen.pc = "schritt3" /\ gen.emp > e

\* C29: every employee is given 28 to 33 days of vacation; they are split
\* into 1 to 3 periods whose days differ by at most one and sum to the days
\* given; the employee's vacation entries are as many, their days (first and
\* last day counted) differ by at most one and sum to the days given.
C29_VacationDays ==
    \A e \in 1..num_employees :
        /\ gen.pc \notin {"aus", "schritt1"}
             => gen.urlaub_tage_pro_mitarbeiter[e] \in 28..33
        /\ gen.pc \notin {"aus", "schritt1", "schritt2"}
             => LET l == gen.urlaub_entries_per_mitarbeiter[e]
                IN  /\ Len(l) \in 1..3
                    /\ SumSeq(l) = gen.urlaub_tage_pro_mitarbeiter[e]
                    /\ \A a, b \in 1..Len(l) : l[a] - l[b] <= 1
        /\ C29_Fertig(e)
             => LET u == C29_Urlaub(e)
                IN  /\ Len(u) \in 1..3
                    /\ SumSeq([k \in 1..Len(u) |-> C29_Tage(u[k])])
                          = gen.urlaub_tage_pro_mitarbeiter[e]
                    /\ \A a, b \in 1..Len(u) : C29_Tage(u[a]) - C29_Tage(u[b]) <= 1

\* the first employee has three vacation entries, not all of the same
\* length, and the next employee's are still to come
C29_Witness ==
    /\ gen.pc = "schritt3"
    /\ gen.emp = 2
    /\ Len(C29_Urlaub(1)) = 3
    /\ \E a, b \in 1..3 : C29_Tage(C29_Urlaub(1)[a]) # C29_Tage(C29_Urlaub(1)[b])

=============================================================================
